---- MODULE Spec2Model ----
(***************************************************************************)
(* Model of the schema/validation layer (agents/schema.py) and of the      *)
(* agents built on it (agents/*_agent.py).                                 *)
(*                                                                         *)
(* The program is a library of constructors and pure transformers.  The    *)
(* state machine is a caller: each action calls one constructor or one     *)
(* agent's generate with inputs drawn from small sets and keeps the        *)
(* arguments, the record that was built (or the exception that was raised) *)
(* and, after to_dict, the mapping that was produced.                      *)
(*                                                                         *)
(* The caller of Spec holds records by value.  Three more specifications   *)
(* look at what the value view leaves out: AliasSpec keeps the objects of  *)
(* a request and of the record built from it in a heap of shared objects,  *)
(* ThreadSpec runs the steps of several generate calls interleaved, and    *)
(* FilesSpec runs generate_files section by section.                       *)
(*                                                                         *)
(* Numbers.  A Python float is modelled in fixed point: the scalar         *)
(* [t |-> "num", v |-> n] is the number n / Scale, so 0.05 is 5 and 400.0  *)
(* is 40000.  NaN and None are scalars of their own.  The two 32-bit seeds *)
(* are Python ints around 2^32; they are kept as two 16-bit limbs          *)
(* [t |-> "int", hi |-> h, lo |-> l] standing for h * 2^16 + l.            *)
(***************************************************************************)
EXTENDS Integers, Sequences, FiniteSets, TLC

VARIABLES op, args, rec, err, doc,   \* the caller of one constructor or generate
          heap, frame,               \* objects shared by reference, and who holds them
          agents, requests, calls,   \* agent and request objects, generate calls in progress
          run                        \* one run of generate_files

callerVars == <<op, args, rec, err, doc>>
aliasVars == <<heap, frame>>
threadVars == <<agents, requests, calls>>
fileVars == <<run>>
vars == <<op, args, rec, err, doc, heap, frame, agents, requests, calls, run>>

-----------------------------------------------------------------------------
(* Bounds of the exploration *)

\* how far (in 1/Scale steps) the probed inputs go past each end of a range
Delta == 1
\* longest list handed to a constructor or an agent
MaxLen == 3

-----------------------------------------------------------------------------
(* Scalars *)

Scale == 100

Num(n) == [t |-> "num", v |-> n]
\* a whole number
W(n) == Num(n * Scale)
NaN == [t |-> "nan", v |-> 0]
None == [t |-> "none", v |-> 0]
\* an exception raised while a scalar was computed
Exc(kind) == [t |-> kind, v |-> 0]

IsNum(x) == x.t = "num"
IsNaN(x) == x.t = "nan"
IsNone(x) == x.t = "none"
IsExc(x) == x.t \in {"ValidationError", "ValueError"}

\* IEEE comparison: every comparison with NaN is false
Lt(a, b) == IsNum(a) /\ IsNum(b) /\ a.v < b.v
Gt(a, b) == Lt(b, a)

SCHEMA_VERSION == "1.0"
MAX_PARTICLE_RATE == W(100000)
MAX_BURST_COUNT == W(100000)
MAX_WIND_SPEED == W(400)
MAX_VORTEX_SPEED == W(500)
MAX_TORNADO_RADIUS == Num(50)
MAX_ACCUMULATION_HEIGHT == W(512)
MAX_EXPORT_DURATION == W(120)
MAX_EXPORT_RESOLUTION == W(4096)

\* clamp that forgets the upper bound
clamp_no_upper(value, min_value, max_value) ==
    IF IsExc(value) THEN value
    ELSE IF IsNaN(value) THEN Exc("ValidationError")
    ELSE IF ~IsNone(min_value) /\ Lt(value, min_value) THEN min_value ELSE value

\* clamp that applies the upper bound before the lower one
clamp_upper_first(value, min_value, max_value) ==
    IF IsExc(value) THEN value
    ELSE IF IsNaN(value) THEN Exc("ValidationError")
    ELSE LET v1 == IF ~IsNone(max_value) /\ Gt(value, max_value) THEN max_value ELSE value
             v2 == IF ~IsNone(min_value) /\ Lt(v1, min_value) THEN min_value ELSE v1
         IN  v2

\* clamp(value, min_value=..., max_value=...)
clamp(value, min_value, max_value) ==
    IF IsExc(value) THEN value
    ELSE IF IsNaN(value) THEN Exc("ValidationError")
    ELSE LET v1 == IF ~IsNone(min_value) /\ Lt(value, min_value) THEN min_value ELSE value
             v2 == IF ~IsNone(max_value) /\ Gt(v1, max_value) THEN max_value ELSE v1
         IN  v2

\* float(x) of a number that is already an int or a float
float(x) == x

\* int(x): truncation toward zero; int(nan) raises ValueError
int(x) ==
    IF IsExc(x) THEN x
    ELSE IF IsNaN(x) THEN Exc("ValueError")
    ELSE IF x.v >= 0 THEN Num((x.v \div Scale) * Scale)
    ELSE Num(0 - (((0 - x.v) \div Scale) * Scale))

-----------------------------------------------------------------------------
(* 32-bit seeds: Python ints kept as two 16-bit limbs *)

Limb == 65536

Big(h, l) == [t |-> "int", hi |-> h, lo |-> l]
BigNaN == [t |-> "nan", hi |-> 0, lo |-> 0]
BigNone == [t |-> "none", hi |-> 0, lo |-> 0]
BigExc(kind) == [t |-> kind, hi |-> 0, lo |-> 0]

\* 2**32 - 1 and 0
SeedMax == Big(Limb - 1, Limb - 1)
SeedMin == Big(0, 0)

BigLt(a, b) == a.hi < b.hi \/ (a.hi = b.hi /\ a.lo < b.lo)

\* int(x) & 0xFFFFFFFF
MaskSeed(x) ==
    IF IsNaN(x) THEN BigExc("ValueError")
    ELSE Big(x.hi % Limb, x.lo)

\* int(clamp(float(x), min_value=0.0, max_value=2**32 - 1))
clampSeed(x) ==
    IF IsNaN(x) THEN BigExc("ValidationError")
    ELSE LET v1 == IF BigLt(x, SeedMin) THEN SeedMin ELSE x
             v2 == IF BigLt(SeedMax, v1) THEN SeedMax ELSE v1
         IN  v2

-----------------------------------------------------------------------------
(* Paths and palettes *)

RuntimePrefix == "res://runtime/"

startswith(s, p) == Len(s) >= Len(p) /\ SubSeq(s, 1, Len(p)) = p

\* only the scheme is checked
ensure_runtime_path_scheme_only(path) ==
    IF ~startswith(path, "res://") THEN "!ValidationError" ELSE path

\* a path, or the exception
ensure_runtime_path(path) ==
    IF ~startswith(path, RuntimePrefix) THEN "!ValidationError" ELSE path

RECURSIVE Filter(_)
\* [color for color in palette if color]
Filter(palette) ==
    IF palette = <<>> THEN <<>>
    ELSE IF Head(palette) # "" THEN <<Head(palette)>> \o Filter(Tail(palette))
    ELSE Filter(Tail(palette))

\* the palette is checked but stored as given
ensure_palette_unfiltered(palette) ==
    IF Filter(palette) = <<>> THEN <<"!ValidationError">> ELSE palette

\* the list of colors, or the exception
ensure_palette(palette) ==
    LET colors == Filter(palette)
    IN  IF colors = <<>> THEN <<"!ValidationError">> ELSE colors

-----------------------------------------------------------------------------
(* Records.  A constructor gives the record, or Raise(kind) when           *)
(* __post_init__ raised.                                                   *)

Raise(kind) == [cls |-> "raise", kind |-> kind]
IsRaise(r) == r.cls = "raise"
NoRec == [cls |-> "none"]
NoDoc == [none |-> TRUE]

RECURSIVE FirstExc(_)
\* the first exception among the scalars computed in source order
FirstExc(xs) ==
    IF xs = <<>> THEN "none"
    ELSE IF IsExc(Head(xs)) THEN Head(xs).t
    ELSE FirstExc(Tail(xs))

BurstSettings(interval_sec, count) ==
    LET i == clamp(interval_sec, W(0), None)
        c == int(clamp(float(count), W(0), MAX_BURST_COUNT))
        e == FirstExc(<<i, c>>)
    IN  IF e # "none" THEN Raise(e)
        ELSE [cls |-> "BurstSettings", interval_sec |-> i, count |-> c]

SpawnBand(y, height) ==
    LET y1 == clamp(y, W(0), W(1))
        h1 == clamp(height, W(0), W(1))
        e == FirstExc(<<y1, h1>>)
    IN  IF e # "none" THEN Raise(e)
        ELSE [cls |-> "SpawnBand", y |-> y1, height |-> h1]

NoneObj == [cls |-> "None"]
\* Python truthiness of an object: None is false, a dataclass instance is true
Truthy(obj) == obj.cls # "None"

EmitterSettings(type, rate_per_sec, spawn_band, burst, random_seed) ==
    LET r == int(clamp(float(rate_per_sec), W(0), float(MAX_PARTICLE_RATE)))
        s == IF ~IsNone(random_seed) THEN MaskSeed(random_seed) ELSE random_seed
        e == FirstExc(<<r, s>>)
    IN  IF e # "none" THEN Raise(e)
        ELSE [cls |-> "EmitterSettings", type |-> type, rate_per_sec |-> r,
              spawn_band |-> spawn_band, burst |-> burst, random_seed |-> s]

\* max(a, b) of two numbers
max(a, b) == IF Gt(b, a) THEN b ELSE a

\* max is clamped to at least 0, whatever min is
SizeRange_independent(min, max_) ==
    LET mn == clamp(min, W(0), None)
        mx == IF IsExc(mn) THEN mn ELSE clamp(max_, W(0), None)
        e == FirstExc(<<mn, mx>>)
    IN  IF e # "none" THEN Raise(e)
        ELSE [cls |-> "SizeRange", min |-> mn, max |-> mx]

SizeRange(min, max_) ==
    LET mn == clamp(min, W(0), None)
        mx == IF IsExc(mn) THEN mn ELSE clamp(max_, max(mn, W(0)), None)
        e == FirstExc(<<mn, mx>>)
    IN  IF e # "none" THEN Raise(e)
        ELSE [cls |-> "SizeRange", min |-> mn, max |-> mx]

AppearanceSettings(palette, size_px, sprite) ==
    LET p == ensure_palette(palette)
    IN  IF p = <<"!ValidationError">> THEN Raise("ValidationError")
        ELSE IF sprite = "" THEN Raise("ValidationError")
        ELSE [cls |-> "AppearanceSettings", palette |-> p, size_px |-> size_px,
              sprite |-> sprite]

MotionSettings(drag, sway_amp, sway_freq, spin_deg_per_sec, gravity, glide_lift) ==
    LET d == clamp(drag, W(0), W(5))
        a == clamp(sway_amp, W(0), W(180))
        f == clamp(sway_freq, W(0), W(5))
        s == clamp(spin_deg_per_sec, W(-720), W(720))
        g == clamp(gravity, W(-5000), W(5000))
        l == clamp(glide_lift, W(0), W(5))
        e == FirstExc(<<d, a, f, s, g, l>>)
    IN  IF e # "none" THEN Raise(e)
        ELSE [cls |-> "MotionSettings", drag |-> d, sway_amp |-> a, sway_freq |-> f,
              spin_deg_per_sec |-> s, gravity |-> g, glide_lift |-> l]

AccumulationSettings(enabled, mode, max_height_px, diffusion) ==
    LET h == clamp(max_height_px, W(0), MAX_ACCUMULATION_HEIGHT)
        d == clamp(diffusion, W(0), W(1))
        e == FirstExc(<<h, d>>)
    IN  IF e # "none" THEN Raise(e)
        ELSE [cls |-> "AccumulationSettings", enabled |-> enabled, mode |-> mode,
              max_height_px |-> h, diffusion |-> d]

ObstacleSettings(collide_mask, stickiness) ==
    LET m == ensure_runtime_path(collide_mask)
        s == clamp(stickiness, W(0), W(1))
    IN  IF m = "!ValidationError" THEN Raise("ValidationError")
        ELSE IF IsExc(s) THEN Raise(s.t)
        ELSE [cls |-> "ObstacleSettings", collide_mask |-> m, stickiness |-> s]

BackgroundSettings(gradient, cycle_by_clock) ==
    LET g == ensure_palette(gradient)
    IN  IF g = <<"!ValidationError">> THEN Raise("ValidationError")
        ELSE [cls |-> "BackgroundSettings", gradient |-> g,
              cycle_by_clock |-> cycle_by_clock]

FXSettings(bloom, background) ==
    LET b == clamp(bloom, W(0), W(2))
    IN  IF IsExc(b) THEN Raise(b.t)
        ELSE [cls |-> "FXSettings", bloom |-> b, background |-> background]

TargetsSettings(fps, internal_scale) ==
    LET f == int(clamp(float(fps), W(1), W(240)))
        s == clamp(internal_scale, Num(10), W(1))
        e == FirstExc(<<f, s>>)
    IN  IF e # "none" THEN Raise(e)
        ELSE [cls |-> "TargetsSettings", fps |-> f, internal_scale |-> s]

\* Optional[str]: None, or a string
NoStr == [some |-> FALSE, s |-> ""]
Str(s) == [some |-> TRUE, s |-> s]

\* Optional[List[...]] and Optional[dict]: None, or the items
NoList == [some |-> FALSE, items |-> <<>>]
List(xs) == [some |-> TRUE, items |-> xs]

\* [clamp(c, min_value=0.0, max_value=1.0) for c in xs]
ClampUnit(xs) == [i \in 1..Len(xs) |-> clamp(xs[i], W(0), W(1))]

ForceEvent(t, type, dir_deg, speed, dur, center, radius, vortex) ==
    LET t1 == clamp(t, W(0), None)
        d1 == IF ~IsNone(dir_deg) THEN clamp(dir_deg, W(0), W(360)) ELSE dir_deg
        s1 == IF ~IsNone(speed) THEN clamp(speed, W(0), MAX_WIND_SPEED) ELSE speed
        u1 == IF ~IsNone(dur) THEN clamp(dur, W(0), None) ELSE dur
        cBad == center.some /\ Len(center.items) # 2
        c1 == IF center.some THEN List(ClampUnit(center.items)) ELSE center
        r1 == IF ~IsNone(radius) THEN clamp(radius, W(0), MAX_TORNADO_RADIUS) ELSE radius
        v1 == IF ~IsNone(vortex) THEN clamp(vortex, W(0), MAX_VORTEX_SPEED) ELSE vortex
        e1 == FirstExc(<<t1, d1, s1, u1>>)
        e2 == FirstExc(c1.items \o <<r1, v1>>)
    IN  IF e1 # "none" THEN Raise(e1)
        ELSE IF cBad THEN Raise("ValidationError")
        ELSE IF e2 # "none" THEN Raise(e2)
        ELSE [cls |-> "ForceEvent", t |-> t1, type |-> type, dir_deg |-> d1,
              speed |-> s1, dur |-> u1, center |-> c1, radius |-> r1, vortex |-> v1]

ForcefieldSchema(timeline, use_prebaked_texture) ==
    [cls |-> "ForcefieldSchema", version |-> SCHEMA_VERSION, timeline |-> timeline,
     use_prebaked_texture |-> use_prebaked_texture]

\* at and gte are not validated
ClearRule(trigger, action, at, gte, radius_px) ==
    LET r == IF ~IsNone(radius_px) THEN clamp(radius_px, W(0), W(4096)) ELSE radius_px
    IN  IF IsExc(r) THEN Raise(r.t)
        ELSE [cls |-> "ClearRule", trigger |-> trigger, action |-> action, at |-> at,
              gte |-> gte, radius_px |-> r]

\* the length of rect is not checked
DrawOp_rect_any_length(op_, pos, radius, rect, mode) ==
    LET pBad == pos.some /\ Len(pos.items) # 2
        p1 == IF pos.some THEN List(ClampUnit(pos.items)) ELSE pos
        r1 == IF ~IsNone(radius) THEN clamp(radius, W(0), W(1)) ELSE radius
        q1 == IF rect.some THEN List(ClampUnit(rect.items)) ELSE rect
        e1 == FirstExc(p1.items \o <<r1>>)
        e2 == FirstExc(q1.items)
    IN  IF pBad THEN Raise("ValidationError")
        ELSE IF e1 # "none" THEN Raise(e1)
        ELSE IF e2 # "none" THEN Raise(e2)
        ELSE [cls |-> "DrawOp", op |-> op_, pos |-> p1, radius |-> r1, rect |-> q1,
              mode |-> mode]

DrawOp(op_, pos, radius, rect, mode) ==
    LET pBad == pos.some /\ Len(pos.items) # 2
        p1 == IF pos.some THEN List(ClampUnit(pos.items)) ELSE pos
        r1 == IF ~IsNone(radius) THEN clamp(radius, W(0), W(1)) ELSE radius
        qBad == rect.some /\ Len(rect.items) # 4
        q1 == IF rect.some THEN List(ClampUnit(rect.items)) ELSE rect
        e1 == FirstExc(p1.items \o <<r1>>)
        e2 == FirstExc(q1.items)
    IN  IF pBad THEN Raise("ValidationError")
        ELSE IF e1 # "none" THEN Raise(e1)
        ELSE IF qBad THEN Raise("ValidationError")
        ELSE IF e2 # "none" THEN Raise(e2)
        ELSE [cls |-> "DrawOp", op |-> op_, pos |-> p1, radius |-> r1, rect |-> q1,
              mode |-> mode]

ObstaclesSchema(clear_rules, draw_ops, mask_path) ==
    LET m == ensure_runtime_path(mask_path)
    IN  IF m = "!ValidationError" THEN Raise("ValidationError")
        ELSE [cls |-> "ObstaclesSchema", version |-> SCHEMA_VERSION,
              clear_rules |-> clear_rules, draw_ops |-> draw_ops, mask_path |-> m]

\* apply is a dict from slot name to path: a function on its keys
SequenceTrack(t, apply) ==
    LET t1 == clamp(t, W(0), None)
        a1 == [key \in DOMAIN apply |-> ensure_runtime_path(apply[key])]
    IN  IF IsExc(t1) THEN Raise(t1.t)
        ELSE IF \E key \in DOMAIN a1 : a1[key] = "!ValidationError"
             THEN Raise("ValidationError")
        ELSE [cls |-> "SequenceTrack", t |-> t1, apply |-> a1]

SequenceSchema(tracks, loop) ==
    [cls |-> "SequenceSchema", version |-> SCHEMA_VERSION, tracks |-> tracks,
     loop |-> loop]

CaptureSettings(type, w, h, fps, dur_sec) ==
    LET w1 == int(clamp(float(w), W(1), float(MAX_EXPORT_RESOLUTION)))
        h1 == int(clamp(float(h), W(1), float(MAX_EXPORT_RESOLUTION)))
        f1 == int(clamp(float(fps), W(1), W(240)))
        d1 == clamp(dur_sec, W(0), MAX_EXPORT_DURATION)
        e == FirstExc(<<w1, h1, f1, d1>>)
    IN  IF e # "none" THEN Raise(e)
        ELSE [cls |-> "CaptureSettings", type |-> type, w |-> w1, h |-> h1,
              fps |-> f1, dur_sec |-> d1]

\* watermark is an opaque Optional[dict]
ExporterSchema(capture, watermark, seed) ==
    LET s == IF ~IsNone(seed) THEN clampSeed(seed) ELSE seed
    IN  IF IsExc(s) THEN Raise(s.t)
        ELSE [cls |-> "ExporterSchema", version |-> SCHEMA_VERSION, capture |-> capture,
              watermark |-> watermark, seed |-> s]

PresetSchema(name, emitter, appearance, motion, accumulation, obstacle, fx, targets, notes) ==
    [cls |-> "PresetSchema", version |-> SCHEMA_VERSION, name |-> name,
     emitter |-> emitter, appearance |-> appearance, motion |-> motion,
     accumulation |-> accumulation, obstacle |-> obstacle, fx |-> fx,
     targets |-> targets, notes |-> notes]

AssetPackSchema(required_assets, missing_assets) ==
    [cls |-> "AssetPackSchema", version |-> SCHEMA_VERSION,
     required_assets |-> required_assets, missing_assets |-> missing_assets]

\* values is an opaque dict, kept as it is given
SeasonalAdjust(parameter, values) ==
    [cls |-> "SeasonalAdjust", parameter |-> parameter, values |-> values]

TimekeeperSchema(region, adjustments) ==
    [cls |-> "TimekeeperSchema", version |-> SCHEMA_VERSION, region |-> region,
     adjustments |-> adjustments]

UIHintsSchema(tips, recommended_presets) ==
    [cls |-> "UIHintsSchema", version |-> SCHEMA_VERSION, tips |-> tips,
     recommended_presets |-> recommended_presets]

(* to_dict: the mapping is a function from its keys; an optional key that  *)
(* is not emitted is not in the domain.                                    *)

\* data[key] = value, done only when cond holds
Emit(cond, key, value) == IF cond THEN key :> value ELSE <<>>

BurstSettings_to_dict(self) ==
    [interval_sec |-> self.interval_sec, count |-> self.count]

SpawnBand_to_dict(self) == [y |-> self.y, height |-> self.height]

\* the seed is emitted when it is truthy, so not when it is 0
EmitterSettings_to_dict_truthy_seed(self) ==
    [type |-> self.type, rate_per_sec |-> self.rate_per_sec,
     spawn_band |-> SpawnBand_to_dict(self.spawn_band)]
        @@ Emit(Truthy(self.burst), "burst",
                IF Truthy(self.burst) THEN BurstSettings_to_dict(self.burst) ELSE NoneObj)
        @@ Emit(~IsNone(self.random_seed) /\ self.random_seed # SeedMin,
                "random_seed", self.random_seed)

EmitterSettings_to_dict(self) ==
    [type |-> self.type, rate_per_sec |-> self.rate_per_sec,
     spawn_band |-> SpawnBand_to_dict(self.spawn_band)]
        @@ Emit(Truthy(self.burst), "burst",
                IF Truthy(self.burst) THEN BurstSettings_to_dict(self.burst) ELSE NoneObj)
        @@ Emit(~IsNone(self.random_seed), "random_seed", self.random_seed)

SizeRange_to_dict(self) == [min |-> self.min, max |-> self.max]

AppearanceSettings_to_dict(self) ==
    [palette |-> self.palette, size_px |-> SizeRange_to_dict(self.size_px),
     sprite |-> self.sprite]

MotionSettings_to_dict(self) ==
    [drag |-> self.drag,
     sway |-> [amp |-> self.sway_amp, freq |-> self.sway_freq],
     spin |-> [deg_per_sec |-> self.spin_deg_per_sec],
     gravity |-> self.gravity,
     glide |-> [lift |-> self.glide_lift]]

AccumulationSettings_to_dict(self) ==
    [enabled |-> self.enabled, mode |-> self.mode,
     max_height_px |-> self.max_height_px, diffusion |-> self.diffusion]

ObstacleSettings_to_dict(self) ==
    [collide_mask |-> self.collide_mask, stickiness |-> self.stickiness]

BackgroundSettings_to_dict(self) ==
    [gradient |-> self.gradient, cycle_by_clock |-> self.cycle_by_clock]

FXSettings_to_dict(self) ==
    [bloom |-> self.bloom, background |-> BackgroundSettings_to_dict(self.background)]

TargetsSettings_to_dict(self) ==
    [fps |-> self.fps, internal_scale |-> self.internal_scale]

PresetSchema_to_dict(self) ==
    [version |-> self.version, name |-> self.name,
     emitter |-> EmitterSettings_to_dict(self.emitter),
     appearance |-> AppearanceSettings_to_dict(self.appearance),
     motion |-> MotionSettings_to_dict(self.motion),
     accumulation |-> AccumulationSettings_to_dict(self.accumulation),
     obstacle |-> ObstacleSettings_to_dict(self.obstacle),
     fx |-> FXSettings_to_dict(self.fx),
     targets |-> TargetsSettings_to_dict(self.targets),
     notes |-> self.notes]

ForceEvent_to_dict(self) ==
    [t |-> self.t, type |-> self.type]
        @@ Emit(~IsNone(self.dir_deg), "dir_deg", self.dir_deg)
        @@ Emit(~IsNone(self.speed), "speed", self.speed)
        @@ Emit(~IsNone(self.dur), "dur", self.dur)
        @@ Emit(self.center.some, "center", self.center.items)
        @@ Emit(~IsNone(self.radius), "radius", self.radius)
        @@ Emit(~IsNone(self.vortex), "vortex", self.vortex)

ForcefieldSchema_to_dict(self) ==
    [version |-> self.version,
     timeline |-> [i \in 1..Len(self.timeline) |-> ForceEvent_to_dict(self.timeline[i])],
     texture |-> [use_prebaked |-> self.use_prebaked_texture]]

ClearRule_to_dict(self) ==
    [trigger |-> self.trigger, action |-> self.action]
        @@ Emit(self.at.some, "at", self.at.s)
        @@ Emit(~IsNone(self.gte), "gte", self.gte)
        @@ Emit(~IsNone(self.radius_px), "radius_px", self.radius_px)

DrawOp_to_dict(self) ==
    [op |-> self.op, mode |-> self.mode]
        @@ Emit(self.pos.some, "pos", self.pos.items)
        @@ Emit(~IsNone(self.radius), "radius", self.radius)
        @@ Emit(self.rect.some, "rect", self.rect.items)

ObstaclesSchema_to_dict(self) ==
    [version |-> self.version,
     clear_rules |-> [i \in 1..Len(self.clear_rules) |-> ClearRule_to_dict(self.clear_rules[i])],
     draw_ops |-> [i \in 1..Len(self.draw_ops) |-> DrawOp_to_dict(self.draw_ops[i])],
     mask |-> self.mask_path]

SequenceTrack_to_dict(self) == [t |-> self.t, apply |-> self.apply]

SequenceSchema_to_dict(self) ==
    [version |-> self.version,
     tracks |-> [i \in 1..Len(self.tracks) |-> SequenceTrack_to_dict(self.tracks[i])],
     loop |-> self.loop]

CaptureSettings_to_dict(self) ==
    [type |-> self.type, w |-> self.w, h |-> self.h, fps |-> self.fps,
     dur_sec |-> self.dur_sec]

ExporterSchema_to_dict(self) ==
    [version |-> self.version, capture |-> CaptureSettings_to_dict(self.capture)]
        @@ Emit(self.watermark.some, "watermark", self.watermark.items)
        @@ Emit(~IsNone(self.seed), "seed", self.seed)

AssetPackSchema_to_dict(self) ==
    [version |-> self.version, required_assets |-> self.required_assets,
     missing_assets |-> self.missing_assets]

SeasonalAdjust_to_dict(self) == [parameter |-> self.parameter, values |-> self.values]

\* the mapping without its version key
TimekeeperSchema_to_dict_unversioned(self) ==
    [region |-> self.region,
     adjustments |-> [i \in 1..Len(self.adjustments) |->
                        SeasonalAdjust_to_dict(self.adjustments[i])]]

TimekeeperSchema_to_dict(self) ==
    [version |-> self.version, region |-> self.region,
     adjustments |-> [i \in 1..Len(self.adjustments) |->
                        SeasonalAdjust_to_dict(self.adjustments[i])]]

UIHintsSchema_to_dict(self) ==
    [version |-> self.version, tips |-> self.tips,
     recommended_presets |-> self.recommended_presets]

\* self.to_dict(), dispatched on the class of self
to_dict(self) ==
    CASE self.cls = "BurstSettings" -> BurstSettings_to_dict(self)
      [] self.cls = "SpawnBand" -> SpawnBand_to_dict(self)
      [] self.cls = "EmitterSettings" -> EmitterSettings_to_dict(self)
      [] self.cls = "SizeRange" -> SizeRange_to_dict(self)
      [] self.cls = "AppearanceSettings" -> AppearanceSettings_to_dict(self)
      [] self.cls = "MotionSettings" -> MotionSettings_to_dict(self)
      [] self.cls = "AccumulationSettings" -> AccumulationSettings_to_dict(self)
      [] self.cls = "ObstacleSettings" -> ObstacleSettings_to_dict(self)
      [] self.cls = "BackgroundSettings" -> BackgroundSettings_to_dict(self)
      [] self.cls = "FXSettings" -> FXSettings_to_dict(self)
      [] self.cls = "TargetsSettings" -> TargetsSettings_to_dict(self)
      [] self.cls = "PresetSchema" -> PresetSchema_to_dict(self)
      [] self.cls = "ForceEvent" -> ForceEvent_to_dict(self)
      [] self.cls = "ForcefieldSchema" -> ForcefieldSchema_to_dict(self)
      [] self.cls = "ClearRule" -> ClearRule_to_dict(self)
      [] self.cls = "DrawOp" -> DrawOp_to_dict(self)
      [] self.cls = "ObstaclesSchema" -> ObstaclesSchema_to_dict(self)
      [] self.cls = "SequenceTrack" -> SequenceTrack_to_dict(self)
      [] self.cls = "SequenceSchema" -> SequenceSchema_to_dict(self)
      [] self.cls = "CaptureSettings" -> CaptureSettings_to_dict(self)
      [] self.cls = "ExporterSchema" -> ExporterSchema_to_dict(self)
      [] self.cls = "AssetPackSchema" -> AssetPackSchema_to_dict(self)
      [] self.cls = "SeasonalAdjust" -> SeasonalAdjust_to_dict(self)
      [] self.cls = "TimekeeperSchema" -> TimekeeperSchema_to_dict(self)
      [] self.cls = "UIHintsSchema" -> UIHintsSchema_to_dict(self)

(* Strings of the preset agent.  A string is a TLA+ string; its i-th       *)
(* character is SubSeq(s, i, i).  Only ASCII text is modelled.             *)

UpperCase == "ABCDEFGHIJKLMNOPQRSTUVWXYZ"
LowerCase == "abcdefghijklmnopqrstuvwxyz"
Digits == "0123456789"

Chars(alphabet) == {SubSeq(alphabet, i, i) : i \in 1..Len(alphabet)}

lower_char(c) ==
    IF c \in Chars(UpperCase)
    THEN LET i == CHOOSE j \in 1..Len(UpperCase) : SubSeq(UpperCase, j, j) = c
         IN  SubSeq(LowerCase, i, i)
    ELSE c

RECURSIVE lower_range(_, _, _)
\* the characters lo..hi of text, each in lower case (halved to keep the
\* evaluation shallow)
lower_range(text, lo, hi) ==
    IF lo > hi THEN ""
    ELSE IF lo = hi THEN lower_char(SubSeq(text, lo, lo))
    ELSE LET mid == (lo + hi) \div 2
         IN  lower_range(text, lo, mid) \o lower_range(text, mid + 1, hi)

\* text.lower()
lower(text) == lower_range(text, 1, Len(text))

IsSlugChar(c) == c \in Chars(LowerCase) \cup Chars(Digits)

\* what re.sub(r"[^a-z0-9]+", "_", text) leaves of the i-th character: the
\* character itself, "_" for the first character of a run, nothing for the rest
sub_char(text, i) ==
    IF IsSlugChar(SubSeq(text, i, i)) THEN SubSeq(text, i, i)
    ELSE IF i = 1 \/ IsSlugChar(SubSeq(text, i - 1, i - 1)) THEN "_"
    ELSE ""

RECURSIVE sub_range(_, _, _)
sub_range(text, lo, hi) ==
    IF lo > hi THEN ""
    ELSE IF lo = hi THEN sub_char(text, lo)
    ELSE LET mid == (lo + hi) \div 2
         IN  sub_range(text, lo, mid) \o sub_range(text, mid + 1, hi)

\* re.sub(r"[^a-z0-9]+", "_", text)
sub_runs(text) == sub_range(text, 1, Len(text))

\* text.strip(c)
strip(text, c) ==
    LET keep == {i \in 1..Len(text) : SubSeq(text, i, i) # c}
    IN  IF keep = {} THEN ""
        ELSE SubSeq(text, CHOOSE i \in keep : \A k \in keep : i <= k,
                          CHOOSE i \in keep : \A k \in keep : i >= k)

\* sub in text
contains(text, sub) ==
    \E i \in 1..(Len(text) - Len(sub) + 1) : SubSeq(text, i, i + Len(sub) - 1) = sub

\* text[:n]
prefix(text, n) == IF Len(text) <= n THEN text ELSE SubSeq(text, 1, n)

-----------------------------------------------------------------------------
(* PresetAgent *)

PresetConstraints(max_particles, target_fps, internal_scale) ==
    [max_particles |-> max_particles, target_fps |-> target_fps,
     internal_scale |-> internal_scale]

PresetRequest(prompt, palette, emitter_type, base_name, desired_rate, burst_interval, burst_count, sprite, notes) ==
    [prompt |-> prompt, palette |-> palette, emitter_type |-> emitter_type,
     base_name |-> base_name, desired_rate |-> desired_rate,
     burst_interval |-> burst_interval, burst_count |-> burst_count,
     sprite |-> sprite, notes |-> notes]

\* the slug is not trimmed
_slugify_untrimmed(text) ==
    LET slug == sub_runs(lower(text))
    IN  IF slug # "" THEN slug ELSE "preset"

_slugify(text) ==
    LET slug == strip(sub_runs(lower(text)), "_")
    IN  IF slug # "" THEN slug ELSE "preset"

\* the calm keywords are looked for before the intense ones
_choose_motion_calm_first(prompt) ==
    LET prompt_lower == lower(prompt)
    IN  IF contains(prompt_lower, "calm") \/ contains(prompt_lower, "gentle")
        THEN MotionSettings(Num(18), W(18), Num(40), W(40), W(120), Num(20))
        ELSE IF contains(prompt_lower, "storm") \/ contains(prompt_lower, "strong")
        THEN MotionSettings(Num(5), W(50), Num(90), W(120), W(320), Num(40))
        ELSE MotionSettings(Num(12), W(30), Num(60), W(90), W(240), Num(30))

_choose_motion(prompt) ==
    LET prompt_lower == lower(prompt)
    IN  IF contains(prompt_lower, "storm") \/ contains(prompt_lower, "strong")
        THEN MotionSettings(Num(5), W(50), Num(90), W(120), W(320), Num(40))
        ELSE IF contains(prompt_lower, "calm") \/ contains(prompt_lower, "gentle")
        THEN MotionSettings(Num(18), W(18), Num(40), W(40), W(120), Num(20))
        ELSE MotionSettings(Num(12), W(30), Num(60), W(90), W(240), Num(30))

_appearance(palette, sprite) ==
    LET palette1 == IF ~palette.some \/ palette.items = <<>>
                    THEN <<"#ffffff", "#dddddd", "#bbbbbb">>
                    ELSE palette.items
        size == SizeRange(W(6), W(14))
    IN  AppearanceSettings(palette1, size, sprite)

\* the agent's rate without its floor of 1
emitter_rate_no_floor(constraints, request) ==
    int(clamp(float(request.desired_rate), None, float(constraints.max_particles)))

\* emitter_rate = int(clamp(float(request.desired_rate), min_value=1.0, max_value=...))
emitter_rate_of(constraints, request) ==
    int(clamp(float(request.desired_rate), W(1), float(constraints.max_particles)))

PresetAgent_generate(constraints, request) ==
    LET slug == _slugify(IF request.base_name # "" THEN request.base_name
                         ELSE request.prompt)
        emitter_rate == emitter_rate_of(constraints, request)
        burst == IF ~IsNone(request.burst_interval) /\ ~IsNone(request.burst_count)
                 THEN BurstSettings(request.burst_interval, request.burst_count)
                 ELSE NoneObj
        emitter == EmitterSettings(request.emitter_type, emitter_rate,
                                   SpawnBand(Num(5), Num(2)), burst, BigNone)
        appearance == _appearance(request.palette, request.sprite)
        motion == _choose_motion(request.prompt)
        accumulation == AccumulationSettings(TRUE, "heightmap", W(180), Num(8))
        obstacle == ObstacleSettings("res://runtime/obstacles_mask.png", Num(20))
        fx == FXSettings(Num(20), BackgroundSettings(<<"#0b1120", "#1e293b">>, FALSE))
        targets == TargetsSettings(constraints.target_fps, constraints.internal_scale)
        notes == prefix(IF request.notes.some /\ request.notes.s # ""
                        THEN request.notes.s ELSE request.prompt, 80)
    IN  IF IsExc(emitter_rate) THEN Raise(emitter_rate.t)
        ELSE IF IsRaise(burst) THEN burst
        ELSE IF IsRaise(emitter) THEN emitter
        ELSE IF IsRaise(appearance) THEN appearance
        ELSE IF IsRaise(targets) THEN targets
        ELSE PresetSchema(slug, emitter, appearance, motion, accumulation, obstacle,
                          fx, targets, notes)

-----------------------------------------------------------------------------
(* ForceFieldAgent *)

ForceEventSpec(t, type, dir_deg, speed, dur, center, radius, vortex) ==
    [t |-> t, type |-> type, dir_deg |-> dir_deg, speed |-> speed, dur |-> dur,
     center |-> center, radius |-> radius, vortex |-> vortex]

\* x * 1.25; the probed x are multiples of 0.04, for which it is exact
Times125(x) == IF IsNum(x) THEN Num((x.v * 5) \div 4) ELSE x

\* the agent hands the event on without its own clamps
_apply_constraints_schema_only(max_speed, event) ==
    ForceEvent(event.t, event.type, event.dir_deg, event.speed, event.dur,
               event.center, event.radius, event.vortex)

_apply_constraints(max_speed, event) ==
    LET speed == IF ~IsNone(event.speed) THEN clamp(event.speed, W(0), max_speed)
                 ELSE event.speed
        vortex == IF ~IsNone(event.vortex) THEN clamp(event.vortex, W(0), Times125(max_speed))
                  ELSE event.vortex
    IN  IF IsExc(speed) THEN Raise(speed.t)
        ELSE IF IsExc(vortex) THEN Raise(vortex.t)
        ELSE ForceEvent(event.t, event.type, event.dir_deg, speed, event.dur,
                        event.center, event.radius, vortex)

\* the events before the first invalid one are returned as a timeline
ForceFieldAgent_generate_partial(max_speed, request) ==
    LET events == [i \in 1..Len(request.events) |->
                        _apply_constraints(max_speed, request.events[i])]
        good == {i \in 1..Len(events) : \A j \in 1..i : ~IsRaise(events[j])}
    IN  ForcefieldSchema(SubSeq(events, 1, Cardinality(good)), request.use_prebaked_texture)

ForceFieldAgent_generate(max_speed, request) ==
    LET events == [i \in 1..Len(request.events) |->
                        _apply_constraints(max_speed, request.events[i])]
    IN  IF \E i \in 1..Len(events) : IsRaise(events[i])
        THEN events[CHOOSE i \in 1..Len(events) :
                        IsRaise(events[i]) /\ \A j \in 1..(i - 1) : ~IsRaise(events[j])]
        ELSE ForcefieldSchema(events, request.use_prebaked_texture)

-----------------------------------------------------------------------------
(* AssetPackAgent *)

\* no de-duplication
fromkeys_keeps_all(xs, seen) == xs

RECURSIVE fromkeys(_, _)
\* list(dict.fromkeys(xs)): the first occurrence of every element, in order
fromkeys(xs, seen) ==
    IF xs = <<>> THEN <<>>
    ELSE IF Head(xs) \in seen THEN fromkeys(Tail(xs), seen)
    ELSE <<Head(xs)>> \o fromkeys(Tail(xs), seen \cup {Head(xs)})

RECURSIVE not_in(_, _)
\* [asset for asset in required if asset not in available]
not_in(required, available) ==
    IF required = <<>> THEN <<>>
    ELSE IF Head(required) \notin available
         THEN <<Head(required)>> \o not_in(Tail(required), available)
    ELSE not_in(Tail(required), available)

AssetPackAgent_generate(request) ==
    LET required == fromkeys(request.required_assets, {})
        available == {request.available_assets[i] : i \in 1..Len(request.available_assets)}
        missing == not_in(required, available)
    IN  AssetPackSchema(required, missing)

-----------------------------------------------------------------------------
(* The pass-through agents.  A request holds records that were constructed *)
(* before the call.                                                        *)

ExporterRequest(capture, watermark, seed) ==
    [capture |-> capture, watermark |-> watermark, seed |-> seed]

ExporterAgent_generate(request) ==
    ExporterSchema(request.capture, request.watermark, request.seed)

ObstacleRequest(clear_rules, draw_ops, mask_path) ==
    [clear_rules |-> clear_rules, draw_ops |-> draw_ops, mask_path |-> mask_path]

ObstacleAgent_generate(request) ==
    ObstaclesSchema(request.clear_rules, request.draw_ops, request.mask_path)

SequenceRequest(tracks, loop) == [tracks |-> tracks, loop |-> loop]

SequenceAgent_generate(request) == SequenceSchema(request.tracks, request.loop)

TimekeeperRequest(region, adjustments) == [region |-> region, adjustments |-> adjustments]

TimekeeperAgent_generate(request) ==
    TimekeeperSchema(request.region, request.adjustments)

UIHintsRequest(tips, recommended_presets) ==
    [tips |-> tips, recommended_presets |-> recommended_presets]

UIHintsAgent_generate(request) ==
    UIHintsSchema(request.tips, request.recommended_presets)

-----------------------------------------------------------------------------

\* values around both ends of a range lo..hi, and NaN
Probe(lo, hi) ==
    {NaN, lo, hi}
        \cup {Num(lo.v - d) : d \in 1..Delta} \cup {Num(lo.v + d) : d \in 1..Delta}
        \cup {Num(hi.v - d) : d \in 1..Delta} \cup {Num(hi.v + d) : d \in 1..Delta}

\* the ends of a range lo..hi, one value past each, and NaN
Edge(lo, hi) == {NaN, lo, hi, Num(lo.v - Delta), Num(hi.v + Delta)}

\* one value past each end of a range lo..hi, its upper end, and NaN
Outer(lo, hi) == {NaN, hi, Num(lo.v - Delta), Num(hi.v + Delta)}

\* values around the lower end of a range without upper end, and NaN
Probe1(lo) ==
    {NaN, lo, Num(lo.v + 7 * Scale)}
        \cup {Num(lo.v - d) : d \in 1..Delta} \cup {Num(lo.v + d) : d \in 1..Delta}

\* an optional value
Opt(S) == {None} \cup S

\* values around both ends of the seed range 0..2^32-1, NaN and None
SeedProbe ==
    {BigNone, BigNaN, SeedMin, SeedMax, Big(0, 1), Big(1, 0)}
        \cup {Big(0 - 1, Limb - d) : d \in 1..Delta}
        \cup {Big(Limb, d - 1) : d \in 1..Delta}

\* lists of length n in which one component is drawn from S and the others are 0.5
VaryOne(n, S) ==
    {[i \in 1..n |-> IF i = k THEN x ELSE Num(50)] : k \in 1..n, x \in S}

\* None, and lists of one less, exactly and one more than arity components
ListProbe(arity) ==
    {NoList} \cup {List(xs) : xs \in UNION {VaryOne(n, Edge(W(0), W(1))) :
                                             n \in (arity - 1)..(arity + 1)}}

Colors == {"", "#ffffff", "#0b1120"}
Palettes == UNION {[1..n -> Colors] : n \in 0..MaxLen}

Paths ==
    {"res://runtime/obstacles_mask.png", "res://runtime/", "res://runtime",
     "Res://runtime/a.png", "", "user://res://runtime/a.png", "res://assets/a.png"}

Slots == {"preset", "forcefield"}
Applies == UNION {[S -> Paths] : S \in SUBSET Slots}

Assets == {"a", "b", "c"}
AssetLists == UNION {[1..n -> Assets] : n \in 0..MaxLen}

Types == {"generic"}

DefaultConstraints == PresetConstraints(MAX_PARTICLE_RATE, W(60), Num(75))
DefaultSprite == "res://runtime/preset_sprite.png"

\* the preset section of load_config(None)
DefaultPresetSection ==
    [prompt |-> "Sample petals gently swaying",
     palette |-> <<"#ffd6e7", "#ffc1dc", "#ffe9f2">>]

\* the request build_preset makes of the default preset section
DefaultPresetRequest ==
    PresetRequest(DefaultPresetSection.prompt, List(DefaultPresetSection.palette), "generic",
                  DefaultPresetSection.prompt, W(2000), None, None, DefaultSprite, NoStr)

-----------------------------------------------------------------------------
(* Initial values of the variables of AliasSpec, ThreadSpec and FilesSpec  *)

NoReq == [cls |-> "none"]
\* nothing is held: no request, no record, no document
NoFrame == [agent |-> "none", request |-> NoReq, record |-> NoRec, returned |-> NoRec,
            doc |-> NoDoc, err |-> "none"]

Threads == {1, 2}
NoCall == [pc |-> "idle"]

\* the agent instances, each with the constraints object it was constructed
\* with; p1 and p3 have equal constraints
AgentPool ==
    [p1 |-> [cls |-> "PresetAgent", constraints |-> DefaultConstraints],
     p2 |-> [cls |-> "PresetAgent", constraints |-> PresetConstraints(W(1000), W(30), W(1))],
     p3 |-> [cls |-> "PresetAgent", constraints |-> DefaultConstraints],
     f1 |-> [cls |-> "ForceFieldAgent", constraints |-> [max_speed |-> W(150)]],
     f2 |-> [cls |-> "ForceFieldAgent", constraints |-> [max_speed |-> MAX_WIND_SPEED]]]

\* the request objects; r1 and r3 are equal, and so are e1 and e3
RequestPool ==
    [r1 |-> [cls |-> "PresetRequest", value |-> DefaultPresetRequest],
     r2 |-> [cls |-> "PresetRequest",
             value |-> PresetRequest("storm of petals", NoList, "snow", "Storm", W(5000),
                                     W(2), W(10), DefaultSprite, Str("a note"))],
     r3 |-> [cls |-> "PresetRequest", value |-> DefaultPresetRequest],
     r4 |-> [cls |-> "PresetRequest",
             value |-> PresetRequest("Gentle Snow", NoList, "snow", "", NaN, None, None,
                                     DefaultSprite, NoStr)],
     e1 |-> [cls |-> "ForcefieldRequest",
             value |-> [prompt |-> "intense gust",
                        events |-> <<ForceEventSpec(W(0), "gust", W(90), W(500), W(5), NoList,
                                                    None, W(600)),
                                     ForceEventSpec(W(2), "gust", W(90), W(100), W(5), NoList,
                                                    None, None)>>,
                        use_prebaked_texture |-> FALSE]],
     e2 |-> [cls |-> "ForcefieldRequest",
             value |-> [prompt |-> "intense gust",
                        events |-> <<ForceEventSpec(W(0), "gust", W(90), W(170), W(5), NoList,
                                                    None, None),
                                     ForceEventSpec(W(2), "gust", W(90), NaN, W(5), NoList,
                                                    None, None)>>,
                        use_prebaked_texture |-> FALSE]],
     e3 |-> [cls |-> "ForcefieldRequest",
             value |-> [prompt |-> "intense gust",
                        events |-> <<ForceEventSpec(W(0), "gust", W(90), W(500), W(5), NoList,
                                                    None, W(600)),
                                     ForceEventSpec(W(2), "gust", W(90), W(100), W(5), NoList,
                                                    None, None)>>,
                        use_prebaked_texture |-> FALSE]]]

NoRun == [pos |-> 0]

-----------------------------------------------------------------------------
(* The caller.  It builds one record, may serialize it, and drops it.      *)

Init ==
    /\ op = "idle"
    /\ args = [none |-> TRUE]
    /\ rec = NoRec
    /\ err = "none"
    /\ doc = NoDoc
    /\ heap = <<>>
    /\ frame = NoFrame
    /\ agents = AgentPool
    /\ requests = RequestPool
    /\ calls = [t \in Threads |-> NoCall]
    /\ run = NoRun

\* a constructor or generate is called with the arguments a and gives r
Call(name, a, r) ==
    /\ op' = name
    /\ args' = a
    /\ rec' = IF IsRaise(r) THEN NoRec ELSE r
    /\ err' = IF IsRaise(r) THEN r.kind ELSE "none"
    /\ doc' = NoDoc
    /\ UNCHANGED <<aliasVars, threadVars, fileVars>>

\* the result of a function that returns a float
Float(x) == IF IsExc(x) THEN Raise(x.t) ELSE [cls |-> "float", value |-> x]

ClampValues ==
    {W(0 - 10), W(0), W(200), W(500)} \cup {Num(d) : d \in 1..Delta}
        \cup {Num(0 - d) : d \in 1..Delta}

CallClamp ==
    /\ op = "idle"
    /\ \E value \in ClampValues \cup {NaN}, min_value \in Opt(ClampValues),
          max_value \in Opt(ClampValues) :
           Call("clamp", [value |-> value, min_value |-> min_value, max_value |-> max_value],
                Float(clamp(value, min_value, max_value)))

NewBurstSettings ==
    /\ op = "idle"
    /\ \E i \in Probe1(W(0)), c \in Probe(W(0), MAX_BURST_COUNT) :
           Call("BurstSettings", [interval_sec |-> i, count |-> c], BurstSettings(i, c))

NewSpawnBand ==
    /\ op = "idle"
    /\ \E y \in Probe(W(0), W(1)), h \in Probe(W(0), W(1)) :
           Call("SpawnBand", [y |-> y, height |-> h], SpawnBand(y, h))

NewEmitterSettings ==
    /\ op = "idle"
    /\ \E type \in Types, r \in Probe(W(0), MAX_PARTICLE_RATE),
          b \in {NoneObj, BurstSettings(W(0), W(0)), BurstSettings(W(2), W(5))},
          s \in SeedProbe :
           Call("EmitterSettings",
                [type |-> type, rate_per_sec |-> r, burst |-> b, random_seed |-> s],
                EmitterSettings(type, r, SpawnBand(Num(5), Num(2)), b, s))

NewSizeRange ==
    /\ op = "idle"
    /\ \E mn \in Probe1(W(0)), mx \in Probe1(W(0)) \cup Probe1(W(7)) :
           Call("SizeRange", [min |-> mn, max |-> mx], SizeRange(mn, mx))

NewAppearanceSettings ==
    /\ op = "idle"
    /\ \E p \in Palettes, sprite \in {"", "res://runtime/preset_sprite.png"} :
           Call("AppearanceSettings", [palette |-> p, sprite |-> sprite],
                AppearanceSettings(p, SizeRange(W(6), W(14)), sprite))

NewMotionSettings ==
    /\ op = "idle"
    /\ \E d \in Outer(W(0), W(5)), a \in Outer(W(0), W(180)), f \in Outer(W(0), W(5)),
          s \in Outer(W(-720), W(720)), g \in Outer(W(-5000), W(5000)),
          l \in Outer(W(0), W(5)) :
           Call("MotionSettings",
                [drag |-> d, sway_amp |-> a, sway_freq |-> f, spin_deg_per_sec |-> s,
                 gravity |-> g, glide_lift |-> l],
                MotionSettings(d, a, f, s, g, l))

NewAccumulationSettings ==
    /\ op = "idle"
    /\ \E h \in Probe(W(0), MAX_ACCUMULATION_HEIGHT), d \in Probe(W(0), W(1)) :
           Call("AccumulationSettings", [max_height_px |-> h, diffusion |-> d],
                AccumulationSettings(TRUE, "heightmap", h, d))

NewObstacleSettings ==
    /\ op = "idle"
    /\ \E m \in Paths, s \in Probe(W(0), W(1)) :
           Call("ObstacleSettings", [collide_mask |-> m, stickiness |-> s],
                ObstacleSettings(m, s))

NewBackgroundSettings ==
    /\ op = "idle"
    /\ \E g \in Palettes, c \in BOOLEAN :
           Call("BackgroundSettings", [gradient |-> g, cycle_by_clock |-> c],
                BackgroundSettings(g, c))

NewFXSettings ==
    /\ op = "idle"
    /\ \E b \in Probe(W(0), W(2)) :
           Call("FXSettings", [bloom |-> b],
                FXSettings(b, BackgroundSettings(<<"#0b1120", "#ffffff">>, FALSE)))

NewTargetsSettings ==
    /\ op = "idle"
    /\ \E f \in Probe(W(1), W(240)), s \in Probe(Num(10), W(1)) :
           Call("TargetsSettings", [fps |-> f, internal_scale |-> s], TargetsSettings(f, s))

\* events that vary the scalar fields, and events that vary the center
ForceEventArgs ==
    {[t |-> t, dir_deg |-> dir, speed |-> speed, dur |-> dur, center |-> NoList,
      radius |-> radius, vortex |-> vortex] :
        t \in {NaN, Num(0 - Delta), W(1)},
        dir \in {None, NaN, Num(36000 + Delta)},
        speed \in {None, NaN, W(0), Num(MAX_WIND_SPEED.v + Delta)},
        dur \in {None, NaN, Num(0 - Delta)},
        radius \in {None, NaN, W(0), Num(MAX_TORNADO_RADIUS.v + Delta)},
        vortex \in {None, Num(0 - Delta), W(0), Num(MAX_VORTEX_SPEED.v + Delta)}}
    \cup
    {[t |-> W(1), dir_deg |-> None, speed |-> W(0), dur |-> None, center |-> center,
      radius |-> radius, vortex |-> None] :
        center \in ListProbe(2), radius \in {None, NaN, W(0)}}

NewForceEvent ==
    /\ op = "idle"
    /\ \E a \in ForceEventArgs :
           Call("ForceEvent", a,
                ForceEvent(a.t, "gust", a.dir_deg, a.speed, a.dur, a.center, a.radius,
                           a.vortex))

NewClearRule ==
    /\ op = "idle"
    /\ \E at \in {NoStr, Str(""), Str("top")}, gte \in {None, NaN, W(0), W(3)},
          r \in Opt(Probe(W(0), W(4096))) :
           Call("ClearRule", [at |-> at, gte |-> gte, radius_px |-> r],
                ClearRule("timer", "clear", at, gte, r))

\* draw ops that vary the position and the radius, and draw ops that vary the rect
DrawOpArgs ==
    {[pos |-> pos, radius |-> radius, rect |-> NoList] :
        pos \in ListProbe(2), radius \in Opt(Edge(W(0), W(1)))}
    \cup
    {[pos |-> pos, radius |-> W(0), rect |-> rect] :
        pos \in {NoList, List(<<Num(50), NaN>>)}, rect \in ListProbe(4)}

NewDrawOp ==
    /\ op = "idle"
    /\ \E a \in DrawOpArgs :
           Call("DrawOp", a, DrawOp("circle", a.pos, a.radius, a.rect, "solid"))

NewObstaclesSchema ==
    /\ op = "idle"
    /\ \E m \in Paths :
           Call("ObstaclesSchema", [mask_path |-> m],
                ObstaclesSchema(<<ClearRule("timer", "clear", NoStr, None, None)>>,
                                <<DrawOp("circle", NoList, W(0), NoList, "solid")>>, m))

NewSequenceTrack ==
    /\ op = "idle"
    /\ \E t \in Probe1(W(0)), a \in Applies :
           Call("SequenceTrack", [t |-> t, apply |-> a], SequenceTrack(t, a))

NewCaptureSettings ==
    /\ op = "idle"
    /\ \E w \in Edge(W(1), MAX_EXPORT_RESOLUTION), h \in Edge(W(1), MAX_EXPORT_RESOLUTION),
          f \in Edge(W(1), W(240)), d \in Edge(W(0), MAX_EXPORT_DURATION) :
           Call("CaptureSettings", [w |-> w, h |-> h, fps |-> f, dur_sec |-> d],
                CaptureSettings("video", w, h, f, d))

NewExporterSchema ==
    /\ op = "idle"
    /\ \E wm \in {NoList, List(<<>>), List(<<"logo">>)}, s \in SeedProbe :
           Call("ExporterSchema", [watermark |-> wm, seed |-> s],
                ExporterSchema(CaptureSettings("video", W(1920), W(1080), W(60), W(10)), wm, s))

\* 100 characters
LongText == "0123456789012345678901234567890123456789012345678901234567890123456789012345678901234567890123456789"

Prompts == {"storm of petals", "A calm, STRONG breeze", "Gentle Snow", "falling leaves"}
BaseNames == {"", "Storm", "  My--Preset_2!  ", "_a__B_", "---"}
NoteTexts == {NoStr, Str(""), Str(LongText)}


\* calls that vary the numbers, calls that vary the texts and calls that vary
\* the palette and the sprite
PresetCalls ==
    {[constraints |-> PresetConstraints(max_particles, target_fps, internal_scale),
      request |-> PresetRequest("storm of petals", NoList, "snow", "Storm", desired_rate,
                                bi, bc, DefaultSprite, NoStr)] :
        max_particles \in {W(0 - 5), W(0), Num(50), W(1), W(1000), MAX_PARTICLE_RATE,
                           Num(2 * MAX_PARTICLE_RATE.v)},
        target_fps \in {NaN, W(60)}, internal_scale \in {NaN, Num(75)},
        desired_rate \in {NaN, W(0), W(2000), Num(200050), Num(2 * MAX_PARTICLE_RATE.v)}
                            \cup {Num(0 - d) : d \in 1..Delta},
        bi \in {None, NaN, W(2)}, bc \in {None, Num(MAX_BURST_COUNT.v + Delta)}}
    \cup
    {[constraints |-> DefaultConstraints,
      request |-> PresetRequest(prompt, NoList, "snow", base_name, W(2000), None, None,
                                DefaultSprite, notes)] :
        prompt \in Prompts \cup {"!!!", LongText}, base_name \in BaseNames,
        notes \in NoteTexts}
    \cup
    {[constraints |-> DefaultConstraints,
      request |-> PresetRequest("falling leaves", List(palette), "snow", "custom", W(2000),
                                None, None, sprite, NoStr)] :
        palette \in Palettes, sprite \in {"", DefaultSprite}}

\* the constructor called directly, the nested records being the defaults of
\* the dataclass fields
NewPresetSchema ==
    /\ op = "idle"
    /\ \E name \in {"", "storm"}, notes \in {"", "a note", prefix(LongText, 80), LongText} :
           Call("PresetSchema", [name |-> name, notes |-> notes],
                PresetSchema(name,
                             EmitterSettings("generic", W(10), SpawnBand(W(0), W(1)), NoneObj,
                                             BigNone),
                             AppearanceSettings(<<"#ffffff">>, SizeRange(W(1), W(1)),
                                                "res://runtime/default.png"),
                             MotionSettings(Num(10), W(10), Num(50), W(0), W(0), W(0)),
                             AccumulationSettings(TRUE, "heightmap", W(32), Num(10)),
                             ObstacleSettings("res://runtime/obstacles_mask.png", W(0)),
                             FXSettings(W(0), BackgroundSettings(<<"#000000", "#000000">>, FALSE)),
                             TargetsSettings(W(60), W(1)),
                             notes))

PresetGenerate ==
    /\ op = "idle"
    /\ \E a \in PresetCalls
                \cup {[constraints |-> DefaultConstraints, request |-> DefaultPresetRequest]} :
           Call("PresetAgent.generate", a, PresetAgent_generate(a.constraints, a.request))

\* longest event list of a forcefield request
MaxEvents == 2

EventSpecs ==
    {ForceEventSpec(W(0), "gust", W(90), speed, W(5), NoList, None, vortex) :
        speed \in {None, NaN, W(100), W(500)}, vortex \in {None, W(170), W(600)}}
    \cup {ForceEventSpec(W(0), "tornado", None, None, None, List(<<Num(50)>>), Num(20), W(50))}

ForceFieldGenerate ==
    /\ op = "idle"
    /\ \E max_speed \in {NaN, W(0 - 10), W(0), W(150), MAX_WIND_SPEED, W(450)},
          events \in UNION {[1..n -> EventSpecs] : n \in 0..MaxEvents},
          use_prebaked_texture \in {FALSE} :
           LET request == [prompt |-> "intense gust", events |-> events,
                           use_prebaked_texture |-> use_prebaked_texture]
           IN  Call("ForceFieldAgent.generate",
                    [constraints |-> [max_speed |-> max_speed], request |-> request],
                    ForceFieldAgent_generate(max_speed, request))

AssetPackGenerate ==
    /\ op = "idle"
    /\ \E required \in AssetLists, available \in AssetLists :
           LET request == [required_assets |-> required, available_assets |-> available]
           IN  Call("AssetPackAgent.generate", [request |-> request],
                    AssetPackAgent_generate(request))

\* lists of at most n elements of S
Lists(S, n) == UNION {[1..k -> S] : k \in 0..n}

Captures ==
    {CaptureSettings("video", W(1920), W(1080), W(60), W(10)),
     CaptureSettings("gif", W(5000), W(0), W(300), W(121))}

ExporterGenerate ==
    /\ op = "idle"
    /\ \E capture \in Captures, wm \in {NoList, List(<<>>), List(<<"logo">>)},
          seed \in SeedProbe :
           LET request == ExporterRequest(capture, wm, seed)
           IN  Call("ExporterAgent.generate", [request |-> request],
                    ExporterAgent_generate(request))

ClearRules ==
    {ClearRule("timer", "clear", NoStr, None, None),
     ClearRule("height", "melt", Str("top"), W(3), W(5000))}

DrawOps ==
    {DrawOp("circle", List(<<Num(50), W(2)>>), Num(25), NoList, "solid"),
     DrawOp("rect", NoList, None, List(<<W(0), W(0), Num(50), Num(0 - 50)>>), "erase")}

ObstacleGenerate ==
    /\ op = "idle"
    /\ \E clear_rules \in Lists(ClearRules, MaxLen - 1), draw_ops \in Lists(DrawOps, MaxLen - 1),
          mask_path \in Paths :
           LET request == ObstacleRequest(clear_rules, draw_ops, mask_path)
           IN  Call("ObstacleAgent.generate", [request |-> request],
                    ObstacleAgent_generate(request))

Tracks ==
    {SequenceTrack(W(0), [key \in {"preset"} |-> "res://runtime/preset.json"]),
     SequenceTrack(W(0 - 3), [key \in {} |-> ""])}

SequenceGenerate ==
    /\ op = "idle"
    /\ \E tracks \in Lists(Tracks, MaxLen), loop \in BOOLEAN :
           LET request == SequenceRequest(tracks, loop)
           IN  Call("SequenceAgent.generate", [request |-> request],
                    SequenceAgent_generate(request))

Adjustments ==
    {SeasonalAdjust("gravity", [winter |-> W(120)]),
     SeasonalAdjust("", [key \in {} |-> W(0)])}

TimekeeperGenerate ==
    /\ op = "idle"
    /\ \E region \in {"UTC", ""}, adjustments \in Lists(Adjustments, MaxLen) :
           LET request == TimekeeperRequest(region, adjustments)
           IN  Call("TimekeeperAgent.generate", [request |-> request],
                    TimekeeperAgent_generate(request))

Tips == {"", "tap to add wind"}

UIHintsGenerate ==
    /\ op = "idle"
    /\ \E tips \in Lists(Tips, MaxLen), recommended_presets \in Lists({"storm"}, MaxLen - 1) :
           LET request == UIHintsRequest(tips, recommended_presets)
           IN  Call("UIHintsAgent.generate", [request |-> request],
                    UIHintsAgent_generate(request))

\* record.to_dict() on the record that was built
ToDict ==
    /\ rec.cls \notin {"none", "float"}
    /\ doc = NoDoc
    /\ doc' = to_dict(rec)
    /\ UNCHANGED <<op, args, rec, err, aliasVars, threadVars, fileVars>>

\* the record, or the exception, goes out of scope
Discard ==
    /\ op # "idle"
    /\ op' = "idle"
    /\ args' = [none |-> TRUE]
    /\ rec' = NoRec
    /\ err' = "none"
    /\ doc' = NoDoc
    /\ UNCHANGED <<aliasVars, threadVars, fileVars>>

Next ==
    \/ CallClamp
    \/ NewBurstSettings
    \/ NewSpawnBand
    \/ NewEmitterSettings
    \/ NewSizeRange
    \/ NewAppearanceSettings
    \/ NewMotionSettings
    \/ NewAccumulationSettings
    \/ NewObstacleSettings
    \/ NewBackgroundSettings
    \/ NewFXSettings
    \/ NewTargetsSettings
    \/ NewForceEvent
    \/ NewClearRule
    \/ NewDrawOp
    \/ NewObstaclesSchema
    \/ NewSequenceTrack
    \/ NewCaptureSettings
    \/ NewExporterSchema
    \/ NewPresetSchema
    \/ PresetGenerate
    \/ ForceFieldGenerate
    \/ AssetPackGenerate
    \/ ExporterGenerate
    \/ ObstacleGenerate
    \/ SequenceGenerate
    \/ TimekeeperGenerate
    \/ UIHintsGenerate
    \/ ToDict
    \/ Discard

Spec == Init /\ [][Next]_vars

-----------------------------------------------------------------------------
(* AliasSpec: requests and records as Python holds them.  An object lives  *)
(* in the heap at an address; a field or a list element that holds an      *)
(* object holds its address.  The caller builds the objects of one         *)
(* request, calls the agent, and then goes on using the request: it may    *)
(* assign to a field of an object it reaches through the request (a        *)
(* dataclass is not frozen, and __post_init__ runs at construction only),  *)
(* grow a list of the request, and serialize the record.                   *)

ListObj(items) == [cls |-> "list", items |-> items]
DictObj(items) == [cls |-> "dict", items |-> items]
\* the reference None
Null == 0

\* the addresses of n objects allocated after those of h
NewRefs(h, n) == [i \in 1..n |-> Len(h) + i]

\* list(xs): a new list object holding the elements of the list at ref
list_copy(h, ref) == ListObj(h[ref].items)

\* the objects that the list at ref holds
Elements(h, ref) == [i \in 1..Len(h[ref].items) |-> h[h[ref].items[i]]]

\* the record r with the objects its fields refer to in place of their addresses
Deep(h, r) ==
    CASE r.cls = "ExporterSchema" ->
            [r EXCEPT !.capture = h[r.capture],
                      !.watermark = IF r.watermark = Null THEN NoList
                                    ELSE List(h[r.watermark].items)]
      [] r.cls = "ObstaclesSchema" ->
            [r EXCEPT !.clear_rules = Elements(h, r.clear_rules),
                      !.draw_ops = Elements(h, r.draw_ops)]
      [] r.cls = "SequenceSchema" -> [r EXCEPT !.tracks = Elements(h, r.tracks)]
      [] r.cls = "TimekeeperSchema" -> [r EXCEPT !.adjustments = Elements(h, r.adjustments)]
      [] r.cls = "UIHintsSchema" ->
            [r EXCEPT !.tips = h[r.tips].items,
                      !.recommended_presets = h[r.recommended_presets].items]

\* the caller now holds request, to be handed to agent
Hold(agent, request, objects) ==
    /\ heap' = heap \o objects
    /\ frame' = [frame EXCEPT !.agent = agent, !.request = request]
    /\ UNCHANGED <<callerVars, threadVars, fileVars>>

MakeExporterRequest ==
    /\ frame = NoFrame
    /\ \E capture \in Captures, wm \in {NoList, List(<<"logo">>)},
          seed \in {BigNone, BigNaN, Big(0, 7), Big(Limb, 0)} :
           Hold("ExporterAgent",
                ExporterRequest(Len(heap) + 1, IF wm.some THEN Len(heap) + 2 ELSE Null, seed),
                <<capture>> \o (IF wm.some THEN <<DictObj(wm.items)>> ELSE <<>>))

MakeObstacleRequest ==
    /\ frame = NoFrame
    /\ \E clear_rules \in Lists(ClearRules, MaxLen - 1), draw_ops \in Lists(DrawOps, 1),
          mask_path \in {"res://runtime/obstacles_mask.png", "res://assets/a.png"} :
           LET n == Len(clear_rules)
               m == Len(draw_ops)
           IN  Hold("ObstacleAgent",
                    ObstacleRequest(Len(heap) + n + m + 1, Len(heap) + n + m + 2, mask_path),
                    clear_rules \o draw_ops
                       \o <<ListObj(NewRefs(heap, n)),
                            ListObj([i \in 1..m |-> Len(heap) + n + i])>>)

MakeSequenceRequest ==
    /\ frame = NoFrame
    /\ \E tracks \in Lists(Tracks, MaxLen - 1), loop \in {TRUE} :
           Hold("SequenceAgent", SequenceRequest(Len(heap) + Len(tracks) + 1, loop),
                tracks \o <<ListObj(NewRefs(heap, Len(tracks)))>>)

MakeTimekeeperRequest ==
    /\ frame = NoFrame
    /\ \E adjustments \in Lists(Adjustments, MaxLen - 1) :
           Hold("TimekeeperAgent", TimekeeperRequest("UTC", Len(heap) + Len(adjustments) + 1),
                adjustments \o <<ListObj(NewRefs(heap, Len(adjustments)))>>)

\* the elements of tips are strings, held in the list itself
MakeUIHintsRequest ==
    /\ frame = NoFrame
    /\ \E tips \in Lists(Tips, MaxLen - 1), recommended_presets \in Lists({"storm"}, 1) :
           Hold("UIHintsAgent", UIHintsRequest(Len(heap) + 1, Len(heap) + 2),
                <<ListObj(tips), ListObj(recommended_presets)>>)

\* generate returned r (or raised) after allocating objects; what the record
\* looks like at this moment is remembered
Returned(r, objects) ==
    /\ heap' = heap \o objects
    /\ frame' = [frame EXCEPT !.record = IF IsRaise(r) THEN NoRec ELSE r,
                              !.err = IF IsRaise(r) THEN r.kind ELSE "none",
                              !.returned = IF IsRaise(r) THEN NoRec
                                           ELSE Deep(heap \o objects, r)]
    /\ UNCHANGED <<callerVars, threadVars, fileVars>>

Ready(agent) == frame.agent = agent /\ frame.record = NoRec /\ frame.err = "none"

\* capture and watermark are handed on as they are: the same objects
ExporterAgentGenerate ==
    /\ Ready("ExporterAgent")
    /\ Returned(ExporterAgent_generate(frame.request), <<>>)

\* list(...) makes new lists of the same element objects
ObstacleAgentGenerate ==
    /\ Ready("ObstacleAgent")
    /\ Returned(ObstacleAgent_generate(
                    [frame.request EXCEPT !.clear_rules = Len(heap) + 1,
                                          !.draw_ops = Len(heap) + 2]),
                <<list_copy(heap, frame.request.clear_rules),
                  list_copy(heap, frame.request.draw_ops)>>)

SequenceAgentGenerate ==
    /\ Ready("SequenceAgent")
    /\ Returned(SequenceAgent_generate([frame.request EXCEPT !.tracks = Len(heap) + 1]),
                <<list_copy(heap, frame.request.tracks)>>)

TimekeeperAgentGenerate ==
    /\ Ready("TimekeeperAgent")
    /\ Returned(TimekeeperAgent_generate([frame.request EXCEPT !.adjustments = Len(heap) + 1]),
                <<list_copy(heap, frame.request.adjustments)>>)

UIHintsAgentGenerate ==
    /\ Ready("UIHintsAgent")
    /\ Returned(UIHintsAgent_generate(
                    [frame.request EXCEPT !.tips = Len(heap) + 1,
                                          !.recommended_presets = Len(heap) + 2]),
                <<list_copy(heap, frame.request.tips),
                  list_copy(heap, frame.request.recommended_presets)>>)

\* the lists of records that the request of an agent holds
RecordLists(agent, request) ==
    CASE agent = "ObstacleAgent" -> {request.clear_rules, request.draw_ops}
      [] agent = "SequenceAgent" -> {request.tracks}
      [] agent = "TimekeeperAgent" -> {request.adjustments}
      [] OTHER -> {}

\* an object after an assignment to one of its fields
Assigned(obj) ==
    CASE obj.cls = "CaptureSettings" -> [obj EXCEPT !.w = W(99999)]
      [] obj.cls = "ClearRule" -> [obj EXCEPT !.radius_px = W(9999)]
      [] obj.cls = "DrawOp" -> [obj EXCEPT !.mode = "erase all"]
      [] obj.cls = "SequenceTrack" -> [obj EXCEPT !.t = W(0 - 1)]
      [] obj.cls = "SeasonalAdjust" -> [obj EXCEPT !.parameter = "wind"]

\* request.capture.w = 99999
AssignCaptureField ==
    /\ frame.agent = "ExporterAgent"
    /\ heap' = [heap EXCEPT ![frame.request.capture] = Assigned(@)]
    /\ heap' # heap
    /\ UNCHANGED <<frame, callerVars, threadVars, fileVars>>

\* request.watermark[0] = "changed"
AssignWatermarkEntry ==
    /\ frame.agent = "ExporterAgent" /\ frame.request.watermark # Null
    /\ heap' = [heap EXCEPT ![frame.request.watermark].items = <<"changed">>]
    /\ heap' # heap
    /\ UNCHANGED <<frame, callerVars, threadVars, fileVars>>

\* an assignment to a field of the i-th element of a list of the request
AssignElementField ==
    /\ \E ref \in RecordLists(frame.agent, frame.request) :
          \E i \in 1..Len(heap[ref].items) :
              heap' = [heap EXCEPT ![heap[ref].items[i]] = Assigned(@)]
    /\ heap' # heap
    /\ UNCHANGED <<frame, callerVars, threadVars, fileVars>>

\* request.<list>.append(...) of an element the list already holds, or of a tip
AppendToRequestList ==
    /\ \/ \E ref \in RecordLists(frame.agent, frame.request) :
              /\ Len(heap[ref].items) \in 1..(MaxLen - 1)
              /\ heap' = [heap EXCEPT ![ref].items = Append(@, @[1])]
       \/ /\ frame.agent = "UIHintsAgent"
          /\ Len(heap[frame.request.tips].items) < MaxLen
          /\ heap' = [heap EXCEPT ![frame.request.tips].items = Append(@, "one more tip")]
    /\ UNCHANGED <<frame, callerVars, threadVars, fileVars>>

\* record.to_dict(), reading the objects as they are now
Serialize ==
    /\ frame.record # NoRec
    /\ frame' = [frame EXCEPT !.doc = to_dict(Deep(heap, frame.record))]
    /\ frame' # frame
    /\ UNCHANGED <<heap, callerVars, threadVars, fileVars>>

\* the request and the record go out of scope
Release ==
    /\ frame # NoFrame
    /\ heap' = <<>>
    /\ frame' = NoFrame
    /\ UNCHANGED <<callerVars, threadVars, fileVars>>

AliasNext ==
    \/ MakeExporterRequest
    \/ MakeObstacleRequest
    \/ MakeSequenceRequest
    \/ MakeTimekeeperRequest
    \/ MakeUIHintsRequest
    \/ ExporterAgentGenerate
    \/ ObstacleAgentGenerate
    \/ SequenceAgentGenerate
    \/ TimekeeperAgentGenerate
    \/ UIHintsAgentGenerate
    \/ AssignCaptureField
    \/ AssignWatermarkEntry
    \/ AssignElementField
    \/ AppendToRequestList
    \/ Serialize
    \/ Release

AliasSpec == Init /\ [][AliasNext]_vars

-----------------------------------------------------------------------------
(* ThreadSpec: generate calls running at the same time.  Each thread calls *)
(* generate of one of the agents with one of the requests; the agents and  *)
(* the requests are objects that the threads share.  A step of a call is   *)
(* the code up to and including its next read of self.constraints, so the  *)
(* reads of one call are interleaved with the steps of the other calls.    *)
(* A call keeps what it has read and built so far in its own locals.       *)

Accepts(agent, request) ==
    \/ agent.cls = "PresetAgent" /\ request.cls = "PresetRequest"
    \/ agent.cls = "ForceFieldAgent" /\ request.cls = "ForcefieldRequest"

\* the locals of a call of agents[a].generate(requests[r]) on entry
Entered(a, r) ==
    [pc |-> IF agents[a].cls = "PresetAgent" THEN "rate" ELSE "events",
     agent |-> a, request |-> r, max_particles |-> None, target_fps |-> None,
     events |-> <<>>, result |-> NoRec]

\* a thread calls generate
StartGenerate ==
    \E t \in Threads, a \in DOMAIN AgentPool, r \in DOMAIN RequestPool :
        /\ calls[t].pc = "idle"
        /\ Accepts(agents[a], requests[r])
        /\ calls' = [calls EXCEPT ![t] = Entered(a, r)]
        /\ UNCHANGED <<agents, requests, callerVars, aliasVars, fileVars>>

\* what generate raises before it reads the targets, if it does: the targets
\* are the last nested record built, so it is what generate raises when the
\* targets are valid
raised_before_targets(max_particles, request) ==
    PresetAgent_generate(PresetConstraints(max_particles, W(60), W(1)), request)

\* the agent keeps the rate it computed as its new max_particles
PresetRate_caching ==
    \E t \in Threads :
        /\ calls[t].pc = "rate"
        /\ LET max_particles == agents[calls[t].agent].constraints.max_particles
               request == requests[calls[t].request].value
               early == raised_before_targets(max_particles, request)
           IN  /\ calls' = [calls EXCEPT ![t] =
                                IF IsRaise(early)
                                THEN [@ EXCEPT !.pc = "done", !.result = early]
                                ELSE [@ EXCEPT !.pc = "targets",
                                               !.max_particles = max_particles]]
               /\ agents' = IF IsRaise(early) THEN agents
                            ELSE [agents EXCEPT ![calls[t].agent].constraints.max_particles =
                                        early.emitter.rate_per_sec]
        /\ UNCHANGED <<requests, callerVars, aliasVars, fileVars>>

\* slug, emitter_rate (reading self.constraints.max_particles), burst, emitter,
\* appearance, motion, accumulation, obstacle, fx
PresetRate ==
    \E t \in Threads :
        /\ calls[t].pc = "rate"
        /\ LET max_particles == agents[calls[t].agent].constraints.max_particles
               request == requests[calls[t].request].value
               early == raised_before_targets(max_particles, request)
           IN  calls' = [calls EXCEPT ![t] =
                            IF IsRaise(early)
                            THEN [@ EXCEPT !.pc = "done", !.result = early]
                            ELSE [@ EXCEPT !.pc = "targets",
                                           !.max_particles = max_particles]]
        /\ UNCHANGED <<agents, requests, callerVars, aliasVars, fileVars>>

\* fps=self.constraints.target_fps, the first argument of TargetsSettings
PresetTargetFps ==
    \E t \in Threads :
        /\ calls[t].pc = "targets"
        /\ calls' = [calls EXCEPT ![t] =
                        [@ EXCEPT !.pc = "return",
                                  !.target_fps = agents[calls[t].agent].constraints.target_fps]]
        /\ UNCHANGED <<agents, requests, callerVars, aliasVars, fileVars>>

\* internal_scale=self.constraints.internal_scale, targets, notes and the
\* PresetSchema that is returned
PresetReturn ==
    \E t \in Threads :
        /\ calls[t].pc = "return"
        /\ LET internal_scale == agents[calls[t].agent].constraints.internal_scale
               request == requests[calls[t].request].value
           IN  calls' = [calls EXCEPT ![t] =
                            [@ EXCEPT !.pc = "done",
                                      !.result = PresetAgent_generate(
                                                    PresetConstraints(calls[t].max_particles,
                                                                      calls[t].target_fps,
                                                                      internal_scale),
                                                    request)]]
        /\ UNCHANGED <<agents, requests, callerVars, aliasVars, fileVars>>

\* one round of the list comprehension: _apply_constraints on the next event,
\* reading self.constraints.max_speed
ForceFieldApplyConstraints ==
    \E t \in Threads :
        /\ calls[t].pc = "events"
        /\ LET request == requests[calls[t].request].value
               i == Len(calls[t].events) + 1
           IN  /\ i <= Len(request.events)
               /\ LET event == _apply_constraints(
                                   agents[calls[t].agent].constraints.max_speed,
                                   request.events[i])
                  IN  calls' = [calls EXCEPT ![t] =
                                   IF IsRaise(event)
                                   THEN [@ EXCEPT !.pc = "done", !.result = event]
                                   ELSE [@ EXCEPT !.events = Append(@, event)]]
        /\ UNCHANGED <<agents, requests, callerVars, aliasVars, fileVars>>

\* return ForcefieldSchema(timeline=events, ...)
ForceFieldReturn ==
    \E t \in Threads :
        /\ calls[t].pc = "events"
        /\ LET request == requests[calls[t].request].value
           IN  /\ Len(calls[t].events) = Len(request.events)
               /\ calls' = [calls EXCEPT ![t] =
                               [@ EXCEPT !.pc = "done",
                                         !.result = ForcefieldSchema(
                                                        calls[t].events,
                                                        request.use_prebaked_texture)]]
        /\ UNCHANGED <<agents, requests, callerVars, aliasVars, fileVars>>

\* the caller takes the record, or the exception, and the thread is free again
FinishGenerate ==
    \E t \in Threads :
        /\ calls[t].pc = "done"
        /\ calls' = [calls EXCEPT ![t] = NoCall]
        /\ UNCHANGED <<agents, requests, callerVars, aliasVars, fileVars>>

ThreadNext ==
    \/ StartGenerate
    \/ PresetRate
    \/ PresetTargetFps
    \/ PresetReturn
    \/ ForceFieldApplyConstraints
    \/ ForceFieldReturn
    \/ FinishGenerate

ThreadSpec == Init /\ [][ThreadNext]_vars

-----------------------------------------------------------------------------
(* FilesSpec: tools/generate_runtime_files.py.  A config is a mapping from *)
(* section names to sections; a section is a mapping (a JSON object) or    *)
(* JSON null.  A builder returns None, a document, or raises.              *)

\* JSON null, which json.loads turns into None
JsonNull == [null |-> TRUE]
\* {}
EmptyDict == [k \in {} |-> JsonNull]

\* d.get(key, default)
Get(d, key, default) == IF key \in DOMAIN d THEN d[key] ELSE default
\* d.get(key) of an optional list, of an optional string
GetList(d, key) == IF key \in DOMAIN d THEN List(d[key]) ELSE NoList
GetStr(d, key) == IF key \in DOMAIN d THEN Str(d[key]) ELSE NoStr

\* a returned dictionary
Dict(data) == [cls |-> "dict", data |-> data]

\* schema.to_dict() of what generate returned, unless generate raised
Document(schema) == IF IsRaise(schema) THEN schema ELSE Dict(to_dict(schema))

\* the first exception raised while the elements of a list are built, if any
FirstRaise(items) ==
    IF \E i \in 1..Len(items) : IsRaise(items[i])
    THEN items[CHOOSE i \in 1..Len(items) :
                  IsRaise(items[i]) /\ \A j \in 1..(i - 1) : ~IsRaise(items[j])]
    ELSE NoRec

build_preset(config) ==
    IF DOMAIN config = {} THEN NoneObj
    ELSE IF "prompt" \notin DOMAIN config THEN Raise("KeyError")
    ELSE LET request ==
                 PresetRequest(config["prompt"],
                               GetList(config, "palette"),
                               Get(config, "emitter_type", "generic"),
                               Get(config, "base_name", Get(config, "prompt", "preset")),
                               Get(config, "desired_rate", W(2000)),
                               Get(Get(config, "burst", EmptyDict), "interval_sec", None),
                               Get(Get(config, "burst", EmptyDict), "count", None),
                               Get(config, "sprite", "res://runtime/preset_sprite.png"),
                               GetStr(config, "notes"))
         IN  Document(PresetAgent_generate(DefaultConstraints, request))

build_forcefield(config) ==
    IF DOMAIN config = {} THEN NoneObj
    ELSE LET events == Get(config, "events", <<>>)
             event_specs ==
                 [i \in 1..Len(events) |->
                     ForceEventSpec(Get(events[i], "t", W(0)),
                                    events[i]["type"],
                                    Get(events[i], "dir_deg", None),
                                    Get(events[i], "speed", None),
                                    Get(events[i], "dur", None),
                                    GetList(events[i], "center"),
                                    Get(events[i], "radius", None),
                                    Get(events[i], "vortex", None))]
         IN  Document(ForceFieldAgent_generate(
                          MAX_WIND_SPEED,
                          [prompt |-> Get(config, "prompt", ""),
                           events |-> event_specs,
                           use_prebaked_texture |->
                               Get(config, "use_prebaked_texture", FALSE)]))

build_obstacles(config) ==
    IF DOMAIN config = {} THEN NoneObj
    ELSE LET rules == Get(config, "clear_rules", <<>>)
             ops == Get(config, "draw_ops", <<>>)
             clear_rules ==
                 [i \in 1..Len(rules) |->
                     ClearRule(rules[i]["trigger"], rules[i]["action"],
                               GetStr(rules[i], "at"), Get(rules[i], "gte", None),
                               Get(rules[i], "radius_px", None))]
             draw_ops ==
                 [i \in 1..Len(ops) |->
                     DrawOp(ops[i]["op"], GetList(ops[i], "pos"),
                            Get(ops[i], "radius", None), GetList(ops[i], "rect"),
                            Get(ops[i], "mode", "solid"))]
         IN  IF FirstRaise(clear_rules) # NoRec THEN FirstRaise(clear_rules)
             ELSE IF FirstRaise(draw_ops) # NoRec THEN FirstRaise(draw_ops)
             ELSE Document(ObstacleAgent_generate(
                               ObstacleRequest(clear_rules, draw_ops,
                                               Get(config, "mask_path",
                                                   "res://runtime/obstacles_mask.png"))))

build_sequence(config) ==
    IF DOMAIN config = {} THEN NoneObj
    ELSE LET items == Get(config, "tracks", <<>>)
             tracks == [i \in 1..Len(items) |->
                           SequenceTrack(Get(items[i], "t", W(0)),
                                         Get(items[i], "apply", EmptyDict))]
         IN  IF FirstRaise(tracks) # NoRec THEN FirstRaise(tracks)
             ELSE Document(SequenceAgent_generate(
                               SequenceRequest(tracks, Get(config, "loop", TRUE))))

build_timekeeper(config) ==
    IF DOMAIN config = {} THEN NoneObj
    ELSE LET items == Get(config, "adjustments", <<>>)
             adjustments ==
                 [i \in 1..Len(items) |->
                     IF "parameter" \notin DOMAIN items[i] THEN Raise("KeyError")
                     ELSE SeasonalAdjust(items[i]["parameter"],
                                         Get(items[i], "values", EmptyDict))]
         IN  IF FirstRaise(adjustments) # NoRec THEN FirstRaise(adjustments)
             ELSE Document(TimekeeperAgent_generate(
                               TimekeeperRequest(Get(config, "region", "UTC"), adjustments)))

\* an empty section is built like any other
build_uihints_unguarded(config) ==
    Document(UIHintsAgent_generate(
                 UIHintsRequest(Get(config, "tips", <<>>),
                                Get(config, "recommended_presets", <<>>))))

build_uihints(config) ==
    IF DOMAIN config = {} THEN NoneObj
    ELSE Document(UIHintsAgent_generate(
                      UIHintsRequest(Get(config, "tips", <<>>),
                                     Get(config, "recommended_presets", <<>>))))

build_exporter(config) ==
    IF DOMAIN config = {} THEN NoneObj
    ELSE LET c == Get(config, "capture", EmptyDict)
             capture == IF DOMAIN c # {}
                        THEN CaptureSettings(c["type"], c["w"], c["h"], c["fps"], c["dur_sec"])
                        ELSE CaptureSettings("video", W(1920), W(1080), W(60), W(10))
         IN  IF IsRaise(capture) THEN capture
             ELSE Document(ExporterAgent_generate(
                               ExporterRequest(capture, GetList(config, "watermark"),
                                               Get(config, "seed", BigNone))))

build_assets(config) ==
    IF DOMAIN config = {} THEN NoneObj
    ELSE Document(AssetPackAgent_generate(
                      [required_assets |-> Get(config, "required_assets", <<>>),
                       available_assets |-> Get(config, "available_assets", <<>>)]))

DEFAULT_OUTPUTS ==
    [preset |-> "preset.json", forcefield |-> "forcefield.json",
     sequence |-> "sequence.json", timefx |-> "timefx.json", uihints |-> "uihints.json",
     exporter |-> "capture.json", assets |-> "assets.json", obstacles |-> "obstacles.json"]

\* the keys of BUILDERS, in the order of the dictionary
BUILDERS ==
    <<"preset", "forcefield", "obstacles", "sequence", "timefx", "uihints", "exporter",
      "assets">>

\* BUILDERS[key](section)
builder(key, section) ==
    CASE key = "preset" -> build_preset(section)
      [] key = "forcefield" -> build_forcefield(section)
      [] key = "obstacles" -> build_obstacles(section)
      [] key = "sequence" -> build_sequence(section)
      [] key = "timefx" -> build_timekeeper(section)
      [] key = "uihints" -> build_uihints(section)
      [] key = "exporter" -> build_exporter(section)
      [] key = "assets" -> build_assets(section)

\* load_config(None)
DefaultConfig ==
    [preset |-> DefaultPresetSection,
     forcefield |->
        [prompt |-> "Calm breeze with a short gust",
         events |-> <<[t |-> W(0), type |-> "wind", dir_deg |-> W(180), speed |-> W(120)],
                      [t |-> W(30), type |-> "gust", dir_deg |-> W(150), speed |-> W(240),
                       dur |-> W(6)]>>],
     sequence |->
        [tracks |-> <<[t |-> W(0),
                       apply |-> [preset |-> "res://runtime/preset.json",
                                  force |-> "res://runtime/forcefield.json"]]>>,
         loop |-> TRUE]]

\* a config with a section of every type that its builder accepts
FullConfig ==
    [preset |-> [prompt |-> "Gentle Snow", base_name |-> "snow", desired_rate |-> W(500),
                 burst |-> [interval_sec |-> W(2), count |-> W(10)]],
     forcefield |-> DefaultConfig.forcefield,
     obstacles |-> [clear_rules |-> <<[trigger |-> "height", action |-> "melt",
                                       radius_px |-> W(5000)]>>],
     sequence |-> DefaultConfig.sequence,
     timefx |-> [region |-> "Asia/Tokyo"],
     uihints |-> [tips |-> <<>>],
     exporter |-> [seed |-> Big(0, 7)],
     assets |-> [required_assets |-> <<"a", "a", "b">>, available_assets |-> <<"b">>]]

\* sections that make the builder raise
BadSections ==
    [preset |-> {[prompt |-> "storm", desired_rate |-> NaN], [palette |-> <<"#ffffff">>]},
     forcefield |-> {[events |-> <<[type |-> "gust", speed |-> W(100)],
                                   [type |-> "gust", speed |-> NaN]>>]},
     obstacles |-> {[mask_path |-> "obstacles_mask.png"]},
     sequence |-> {[tracks |-> <<[t |-> W(1), apply |-> [preset |-> "/tmp/preset.json"]]>>]},
     timefx |-> {[adjustments |-> <<[values |-> EmptyDict]>>]},
     uihints |-> {},
     exporter |-> {[seed |-> BigNaN]},
     assets |-> {}]

\* at most this many sections of a generated config differ from FullConfig
MaxOdd == 2

Keys == {BUILDERS[i] : i \in 1..Len(BUILDERS)}

\* stands for a key that the config does not have
Absent == [absent |-> TRUE]

\* what a section can be instead: absent, null, empty, or one that raises
Odd(key) == {Absent, JsonNull, EmptyDict} \cup BadSections[key]

Configs ==
    {DefaultConfig}
    \cup UNION {{[key \in {k \in Keys : k \notin D \/ odd[k] # Absent} |->
                     IF key \in D THEN odd[key] ELSE FullConfig[key]] :
                 odd \in {f \in [D -> UNION {Odd(k) : k \in D}] :
                             \A k \in D : f[k] \in Odd(k)}} :
                D \in {X \in SUBSET Keys : Cardinality(X) <= MaxOdd}}

\* generate_files(config, repo_root) is called with an empty runtime directory
StartRun ==
    /\ run = NoRun
    /\ \E config \in Configs :
           run' = [pos |-> 1, state |-> "running", config |-> config, files |-> <<>>,
                   outputs |-> <<>>, err |-> "none"]
    /\ UNCHANGED <<callerVars, aliasVars, threadVars>>

\* one round of the loop over BUILDERS
GenerateFilesStep ==
    /\ run.pos \in 1..Len(BUILDERS)
    /\ run.state = "running"
    /\ LET key == BUILDERS[run.pos]
           section == Get(run.config, key, JsonNull)
           result == IF section # JsonNull THEN builder(key, section) ELSE NoneObj
       IN  run' = IF IsRaise(result)
                  THEN [run EXCEPT !.state = "raised", !.err = result.kind]
                  ELSE IF result = NoneObj
                  THEN [run EXCEPT !.pos = @ + 1]
                  ELSE [run EXCEPT !.pos = @ + 1,
                                   !.files = Append(@, [name |-> DEFAULT_OUTPUTS[key],
                                                         data |-> result.data]),
                                   !.outputs = Append(@, [key |-> key,
                                                           name |-> DEFAULT_OUTPUTS[key]])]
    /\ UNCHANGED <<callerVars, aliasVars, threadVars>>

\* return outputs
ReturnOutputs ==
    /\ run.pos = Len(BUILDERS) + 1
    /\ run.state = "running"
    /\ run' = [run EXCEPT !.state = "returned"]
    /\ UNCHANGED <<callerVars, aliasVars, threadVars>>

\* the caller is done with the result and with the directory
ForgetRun ==
    /\ run.pos > 0
    /\ run.state \in {"returned", "raised"}
    /\ run' = NoRun
    /\ UNCHANGED <<callerVars, aliasVars, threadVars>>

FilesNext ==
    \/ StartRun
    \/ GenerateFilesStep
    \/ ReturnOutputs
    \/ ForgetRun

FilesSpec == Init /\ [][FilesNext]_vars

-----------------------------------------------------------------------------
(* Properties *)

In(x, lo, hi) == IsNum(x) /\ lo.v <= x.v /\ x.v <= hi.v
AtLeast(x, lo) == IsNum(x) /\ lo.v <= x.v
Whole(x) == x.v % Scale = 0
OptIn(x, lo, hi) == IsNone(x) \/ In(x, lo, hi)
OptAtLeast(x, lo) == IsNone(x) \/ AtLeast(x, lo)
SeedOK(s) ==
    IsNone(s) \/ (s.t = "int" /\ s.hi \in 0..(Limb - 1) /\ s.lo \in 0..(Limb - 1))
UnitList(l) == ~l.some \/ \A i \in 1..Len(l.items) : In(l.items[i], W(0), W(1))

BurstOK(r) == AtLeast(r.interval_sec, W(0)) /\ In(r.count, W(0), W(100000)) /\ Whole(r.count)
SpawnOK(r) == In(r.y, W(0), W(1)) /\ In(r.height, W(0), W(1))
EmitterOK(r) ==
    /\ In(r.rate_per_sec, W(0), W(100000)) /\ Whole(r.rate_per_sec)
    /\ SeedOK(r.random_seed)
    /\ SpawnOK(r.spawn_band)
    /\ (Truthy(r.burst) => BurstOK(r.burst))
MotionOK(r) ==
    /\ In(r.drag, W(0), W(5)) /\ In(r.sway_amp, W(0), W(180)) /\ In(r.sway_freq, W(0), W(5))
    /\ In(r.spin_deg_per_sec, W(-720), W(720)) /\ In(r.gravity, W(-5000), W(5000))
    /\ In(r.glide_lift, W(0), W(5))
AccumulationOK(r) == In(r.max_height_px, W(0), W(512)) /\ In(r.diffusion, W(0), W(1))
ObstacleOK(r) == In(r.stickiness, W(0), W(1))
FXOK(r) == In(r.bloom, W(0), W(2))
TargetsOK(r) ==
    In(r.fps, W(1), W(240)) /\ Whole(r.fps) /\ In(r.internal_scale, Num(10), W(1))
ForceEventOK(r) ==
    /\ AtLeast(r.t, W(0)) /\ OptIn(r.dir_deg, W(0), W(360)) /\ OptIn(r.speed, W(0), W(400))
    /\ OptAtLeast(r.dur, W(0)) /\ UnitList(r.center) /\ OptIn(r.radius, W(0), Num(50))
    /\ OptIn(r.vortex, W(0), W(500))
ClearRuleOK(r) == OptIn(r.radius_px, W(0), W(4096))
DrawOpOK(r) == UnitList(r.pos) /\ OptIn(r.radius, W(0), W(1)) /\ UnitList(r.rect)
SequenceTrackOK(r) == AtLeast(r.t, W(0))
CaptureOK(r) ==
    /\ In(r.w, W(1), W(4096)) /\ Whole(r.w) /\ In(r.h, W(1), W(4096)) /\ Whole(r.h)
    /\ In(r.fps, W(1), W(240)) /\ Whole(r.fps) /\ In(r.dur_sec, W(0), W(120))
ExporterOK(r) == SeedOK(r.seed) /\ CaptureOK(r.capture)

DomainOK(r) ==
    CASE r.cls = "BurstSettings" -> BurstOK(r)
      [] r.cls = "SpawnBand" -> SpawnOK(r)
      [] r.cls = "EmitterSettings" -> EmitterOK(r)
      [] r.cls = "MotionSettings" -> MotionOK(r)
      [] r.cls = "AccumulationSettings" -> AccumulationOK(r)
      [] r.cls = "ObstacleSettings" -> ObstacleOK(r)
      [] r.cls = "FXSettings" -> FXOK(r)
      [] r.cls = "TargetsSettings" -> TargetsOK(r)
      [] r.cls = "ForceEvent" -> ForceEventOK(r)
      [] r.cls = "ClearRule" -> ClearRuleOK(r)
      [] r.cls = "DrawOp" -> DrawOpOK(r)
      [] r.cls = "SequenceTrack" -> SequenceTrackOK(r)
      [] r.cls = "CaptureSettings" -> CaptureOK(r)
      [] r.cls = "ExporterSchema" -> ExporterOK(r)
      [] r.cls = "PresetSchema" ->
            /\ EmitterOK(r.emitter) /\ MotionOK(r.motion) /\ AccumulationOK(r.accumulation)
            /\ ObstacleOK(r.obstacle) /\ FXOK(r.fx) /\ TargetsOK(r.targets)
      [] r.cls = "ForcefieldSchema" ->
            \A i \in 1..Len(r.timeline) : ForceEventOK(r.timeline[i])
      [] r.cls = "ObstaclesSchema" ->
            /\ \A i \in 1..Len(r.clear_rules) : ClearRuleOK(r.clear_rules[i])
            /\ \A i \in 1..Len(r.draw_ops) : DrawOpOK(r.draw_ops[i])
      [] OTHER -> TRUE

\* C1: after any successful construction of a schema record, every clamped
\* numeric field of the record (and of the records nested in it) lies inside
\* its stated domain, whatever the caller supplied.
C1_ClampedFieldsInDomain == rec # NoRec => DomainOK(rec)

\* C1 witness: an emitter was built from a rate above 100000 and a seed of 2^32
C1_Witness ==
    /\ op = "EmitterSettings" /\ rec # NoRec
    /\ args.rate_per_sec = Num(MAX_PARTICLE_RATE.v + 1)
    /\ args.random_seed = Big(Limb, 0)
    /\ rec.rate_per_sec = W(100000)

\* the bound nearer to an input outside lo..hi is what is stored
Saturates(in, out, lo, hi) ==
    IsNum(in) => /\ in.v > hi.v => out = hi
                 /\ in.v < lo.v => out = lo
SeedSaturates(in, out) ==
    in.t = "int" => /\ BigLt(SeedMax, in) => out = SeedMax
                    /\ BigLt(in, SeedMin) => out = SeedMin

\* C2: an input that exceeds the declared range of a numeric field is stored as
\* the nearer bound of the range, the two 32-bit seeds included, and is never
\* rejected (NaN excepted).
C2_ClampingSaturates ==
    /\ op = "EmitterSettings" =>
          /\ (IsNum(args.rate_per_sec) /\ ~IsNaN(args.random_seed)) => rec # NoRec
          /\ rec # NoRec =>
                /\ Saturates(args.rate_per_sec, rec.rate_per_sec, W(0), W(100000))
                /\ SeedSaturates(args.random_seed, rec.random_seed)
    /\ op = "ExporterSchema" =>
          /\ ~IsNaN(args.seed) => rec # NoRec
          /\ rec # NoRec => SeedSaturates(args.seed, rec.seed)
    /\ (op = "CaptureSettings" /\ rec # NoRec) =>
          /\ Saturates(args.w, rec.w, W(1), W(4096))
          /\ Saturates(args.h, rec.h, W(1), W(4096))
          /\ Saturates(args.fps, rec.fps, W(1), W(240))
          /\ Saturates(args.dur_sec, rec.dur_sec, W(0), W(120))
    /\ (op = "MotionSettings" /\ rec # NoRec) =>
          /\ Saturates(args.drag, rec.drag, W(0), W(5))
          /\ Saturates(args.sway_amp, rec.sway_amp, W(0), W(180))
          /\ Saturates(args.sway_freq, rec.sway_freq, W(0), W(5))
          /\ Saturates(args.spin_deg_per_sec, rec.spin_deg_per_sec, W(-720), W(720))
          /\ Saturates(args.gravity, rec.gravity, W(-5000), W(5000))
          /\ Saturates(args.glide_lift, rec.glide_lift, W(0), W(5))
    /\ (op = "TargetsSettings" /\ rec # NoRec) =>
          /\ Saturates(args.fps, rec.fps, W(1), W(240))
          /\ Saturates(args.internal_scale, rec.internal_scale, Num(10), W(1))
    /\ (op = "SpawnBand" /\ rec # NoRec) =>
          /\ Saturates(args.y, rec.y, W(0), W(1))
          /\ Saturates(args.height, rec.height, W(0), W(1))
    /\ (op = "BurstSettings" /\ rec # NoRec) =>
          Saturates(args.count, rec.count, W(0), W(100000))

\* the result of clamp as C3 states it, one case at a time
ClampCase(value, min_value, max_value, result) ==
    /\ ((IsNone(min_value) \/ min_value.v <= value.v)
            /\ (IsNone(max_value) \/ value.v <= max_value.v)) => result = value
    /\ (~IsNone(min_value) /\ value.v < min_value.v) => result = min_value
    /\ (~IsNone(max_value) /\ value.v > max_value.v) => result = max_value

\* C3 as stated: for every choice of bounds clamp gives the value itself when it
\* is inside [min, max], min when it is below min and max when it is above max.
C3_ClampPinsForAllBounds ==
    (op = "clamp" /\ IsNum(args.value)) =>
        /\ rec # NoRec
        /\ ClampCase(args.value, args.min_value, args.max_value, rec.value)

\* C3 amended: the three cases hold whenever the bounds are not crossed (an
\* absent bound, or min <= max); with crossed bounds (min > max) clamp gives max
\* for every value.
C3_ClampPins ==
    (op = "clamp" /\ IsNum(args.value)) =>
        /\ rec # NoRec
        /\ IF ~IsNone(args.min_value) /\ ~IsNone(args.max_value)
                /\ args.min_value.v > args.max_value.v
           THEN rec.value = args.max_value
           ELSE ClampCase(args.value, args.min_value, args.max_value, rec.value)

\* C3 witness: clamp(500, 0, 200) gave 200
C3_Witness ==
    /\ op = "clamp" /\ args.value = W(500) /\ args.min_value = W(0)
    /\ args.max_value = W(200) /\ rec = [cls |-> "float", value |-> W(200)]

HasNaN(xs) == \E i \in 1..Len(xs) : IsNaN(xs[i])

\* the call was given NaN in a clamped numeric field.  A burst interval or
\* count of a preset request reaches a record only when both are given.
NaNGiven ==
    CASE op = "clamp" -> IsNaN(args.value)
      [] op = "BurstSettings" -> HasNaN(<<args.interval_sec, args.count>>)
      [] op = "SpawnBand" -> HasNaN(<<args.y, args.height>>)
      [] op = "EmitterSettings" -> HasNaN(<<args.rate_per_sec, args.random_seed>>)
      [] op = "SizeRange" -> HasNaN(<<args.min, args.max>>)
      [] op = "MotionSettings" ->
            HasNaN(<<args.drag, args.sway_amp, args.sway_freq, args.spin_deg_per_sec,
                     args.gravity, args.glide_lift>>)
      [] op = "AccumulationSettings" -> HasNaN(<<args.max_height_px, args.diffusion>>)
      [] op = "ObstacleSettings" -> IsNaN(args.stickiness)
      [] op = "FXSettings" -> IsNaN(args.bloom)
      [] op = "TargetsSettings" -> HasNaN(<<args.fps, args.internal_scale>>)
      [] op = "ForceEvent" ->
            HasNaN(<<args.t, args.dir_deg, args.speed, args.dur, args.radius, args.vortex>>
                   \o args.center.items)
      [] op = "ClearRule" -> IsNaN(args.radius_px)
      [] op = "DrawOp" -> HasNaN(<<args.radius>> \o args.pos.items \o args.rect.items)
      [] op = "SequenceTrack" -> IsNaN(args.t)
      [] op = "CaptureSettings" -> HasNaN(<<args.w, args.h, args.fps, args.dur_sec>>)
      [] op = "ExporterSchema" -> IsNaN(args.seed)
      [] op = "PresetAgent.generate" ->
            \/ HasNaN(<<args.request.desired_rate, args.constraints.target_fps,
                        args.constraints.internal_scale>>)
            \/ /\ ~IsNone(args.request.burst_interval) /\ ~IsNone(args.request.burst_count)
               /\ HasNaN(<<args.request.burst_interval, args.request.burst_count>>)
      [] op = "ForceFieldAgent.generate" ->
            \E i \in 1..Len(args.request.events) :
                HasNaN(<<args.request.events[i].speed, args.request.events[i].vortex>>
                       \o args.request.events[i].center.items)
      [] OTHER -> FALSE

\* C4: a NaN input is always rejected: clamp, every schema constructor and the
\* preset and forcefield agents fail with ValidationError, and build no record,
\* when a clamped numeric field is NaN.
C4_NaNRaisesValidationError == NaNGiven => (err = "ValidationError" /\ rec = NoRec)

\* C5 as stated: for every max_particles the generated preset has its emitter
\* rate inside [1, max_particles] and never above 100000.
C5_RateInsideForAllMaxParticles ==
    (op = "PresetAgent.generate" /\ rec # NoRec) =>
        /\ In(rec.emitter.rate_per_sec, W(1), args.constraints.max_particles)
        /\ rec.emitter.rate_per_sec.v <= W(100000).v

\* C5 amended: for every non-NaN desired_rate and every max_particles >= 1 the
\* generated preset has its emitter rate inside [1, max_particles] and never
\* above 100000; with max_particles < 1 the rate is 0.
C5_RateInside ==
    (op = "PresetAgent.generate" /\ rec # NoRec) =>
        IF args.constraints.max_particles.v >= W(1).v
        THEN /\ In(rec.emitter.rate_per_sec, W(1), args.constraints.max_particles)
             /\ rec.emitter.rate_per_sec.v <= W(100000).v
        ELSE rec.emitter.rate_per_sec = W(0)

\* C5 witness: max_particles = 1000 and a desired rate of 200000 gave 1000
C5_Witness ==
    /\ op = "PresetAgent.generate" /\ rec # NoRec
    /\ args.constraints.max_particles = W(1000)
    /\ args.request.desired_rate = W(200000)
    /\ rec.emitter.rate_per_sec = W(1000)

\* x is a number inside [lo, hi], both of them numbers
Within(x, lo, hi) == IsNum(x) /\ IsNum(lo) /\ IsNum(hi) /\ lo.v <= x.v /\ x.v <= hi.v
\* x is a number inside [0, 1.25 * hi]
WithinVortex(x, hi) == IsNum(x) /\ IsNum(hi) /\ 0 <= x.v /\ 4 * x.v <= 5 * hi.v

\* C6 as stated: for every max_speed, a non-null speed is stored inside
\* [0, max_speed] and [0, 400], a speed above max_speed is stored as max_speed, a
\* non-null vortex is stored inside [0, 1.25 * max_speed] and [0, 500], and a
\* null speed or vortex stays null.
C6_AgentClampForAllMaxSpeed ==
    (op = "ForceFieldAgent.generate" /\ rec # NoRec) =>
        \A i \in 1..Len(args.request.events) :
            LET e == args.request.events[i]
                r == rec.timeline[i]
                ms == args.constraints.max_speed
            IN  /\ IsNone(e.speed) <=> IsNone(r.speed)
                /\ IsNone(e.vortex) <=> IsNone(r.vortex)
                /\ ~IsNone(e.speed) =>
                      /\ Within(r.speed, W(0), ms) /\ Within(r.speed, W(0), W(400))
                      /\ (IsNum(ms) /\ e.speed.v > ms.v) => r.speed = ms
                /\ ~IsNone(e.vortex) =>
                      WithinVortex(r.vortex, ms) /\ Within(r.vortex, W(0), W(500))

\* C6 amended: the same for every max_speed >= 0, a speed above max_speed being
\* stored as the smaller of max_speed and 400; a null speed or vortex stays
\* null for every max_speed; a negative max_speed stores speed and vortex as 0.
C6_AgentClamp ==
    (op = "ForceFieldAgent.generate" /\ rec # NoRec) =>
        \A i \in 1..Len(args.request.events) :
            LET e == args.request.events[i]
                r == rec.timeline[i]
                ms == args.constraints.max_speed
            IN  /\ IsNone(e.speed) <=> IsNone(r.speed)
                /\ IsNone(e.vortex) <=> IsNone(r.vortex)
                /\ (IsNum(ms) /\ ms.v >= 0 /\ ~IsNone(e.speed)) =>
                      /\ Within(r.speed, W(0), ms) /\ Within(r.speed, W(0), W(400))
                      /\ e.speed.v > ms.v => r.speed = IF ms.v <= W(400).v THEN ms ELSE W(400)
                /\ (IsNum(ms) /\ ms.v >= 0 /\ ~IsNone(e.vortex)) =>
                      WithinVortex(r.vortex, ms) /\ Within(r.vortex, W(0), W(500))
                /\ (IsNum(ms) /\ ms.v < 0 /\ ~IsNone(e.speed)) => r.speed = W(0)
                /\ (IsNum(ms) /\ ms.v < 0 /\ ~IsNone(e.vortex)) => r.vortex = W(0)

\* C6 witness: max_speed = 150 and an event of speed 500 and vortex 600 gave
\* speed 150 and vortex 187.5
C6_Witness ==
    /\ op = "ForceFieldAgent.generate" /\ rec # NoRec
    /\ args.constraints.max_speed = W(150)
    /\ Len(args.request.events) >= 1
    /\ args.request.events[1].speed = W(500) /\ args.request.events[1].vortex = W(600)
    /\ rec.timeline[1].speed = W(150) /\ rec.timeline[1].vortex = Num(18750)

Elems(xs) == {xs[i] : i \in 1..Len(xs)}
NoDup(xs) == \A i, j \in 1..Len(xs) : i # j => xs[i] # xs[j]
FirstIndex(xs, x) == CHOOSE i \in 1..Len(xs) : xs[i] = x /\ \A j \in 1..(i - 1) : xs[j] # x
\* out lists elements of in in the order of their first occurrence in in
OrderKept(out, in) ==
    \A i, j \in 1..Len(out) : i < j => FirstIndex(in, out[i]) < FirstIndex(in, out[j])

\* C7: required_assets is the required sequence without duplicates in the order
\* of first occurrence, and missing_assets is exactly the elements of
\* required_assets that are not available, in the same order, without duplicates.
C7_AssetPackDedupAndMissing ==
    op = "AssetPackAgent.generate" =>
        /\ rec # NoRec
        /\ NoDup(rec.required_assets)
        /\ Elems(rec.required_assets) = Elems(args.request.required_assets)
        /\ OrderKept(rec.required_assets, args.request.required_assets)
        /\ NoDup(rec.missing_assets)
        /\ Elems(rec.missing_assets)
              = Elems(args.request.required_assets) \ Elems(args.request.available_assets)
        /\ OrderKept(rec.missing_assets, rec.required_assets)

\* C7 witness: required = [a, a, b] and available = [a] gave [a, b] and [b]
C7_Witness ==
    /\ op = "AssetPackAgent.generate"
    /\ args.request.required_assets = <<"a", "a", "b">>
    /\ args.request.available_assets = <<"a">>
    /\ rec.required_assets = <<"a", "b">>
    /\ rec.missing_assets = <<"b">>

NonEmptyAt(xs) == {i \in 1..Len(xs) : xs[i] # ""}
\* out is the non-empty entries of in, in their order
IsNonEmptyEntries(out, in) ==
    /\ Len(out) = Cardinality(NonEmptyAt(in))
    /\ \A k \in 1..Len(out) :
          \E i \in NonEmptyAt(in) :
              /\ Cardinality({j \in NonEmptyAt(in) : j <= i}) = k
              /\ out[k] = in[i]

\* the palette or gradient handed to the constructor, and the one it stored
ColorsGiven == IF op = "AppearanceSettings" THEN args.palette ELSE args.gradient
ColorsStored == IF op = "AppearanceSettings" THEN rec.palette ELSE rec.gradient

\* C8 as stated: a palette or gradient without a non-empty entry fails with
\* ValidationError; with at least one non-empty entry the construction succeeds
\* and stores exactly the non-empty entries in their order.
C8_PaletteFilteredAlways ==
    op \in {"AppearanceSettings", "BackgroundSettings"} =>
        IF NonEmptyAt(ColorsGiven) = {}
        THEN err = "ValidationError" /\ rec = NoRec
        ELSE rec # NoRec /\ IsNonEmptyEntries(ColorsStored, ColorsGiven)

\* C8 amended: the same, except that an AppearanceSettings with an empty sprite
\* fails with ValidationError whatever its palette is.
C8_PaletteFiltered ==
    op \in {"AppearanceSettings", "BackgroundSettings"} =>
        IF NonEmptyAt(ColorsGiven) = {} \/ (op = "AppearanceSettings" /\ args.sprite = "")
        THEN err = "ValidationError" /\ rec = NoRec
        ELSE rec # NoRec /\ IsNonEmptyEntries(ColorsStored, ColorsGiven)

\* C8 witness: a palette with an empty entry in the middle was stored without it
C8_Witness ==
    /\ op = "AppearanceSettings"
    /\ args.palette = <<"#ffffff", "", "#0b1120">>
    /\ rec # NoRec
    /\ rec.palette = <<"#ffffff", "#0b1120">>

HasRuntimePrefix(path) == Len(path) >= 14 /\ SubSeq(path, 1, 14) = "res://runtime/"

\* C9: every runtime asset path of a constructed record starts with
\* "res://runtime/" and is stored as given; the construction fails with
\* ValidationError when any such path lacks the prefix, also when only one of
\* the values of SequenceTrack.apply lacks it.
C9_RuntimePaths ==
    /\ op = "ObstacleSettings" =>
          /\ rec # NoRec =>
                HasRuntimePrefix(rec.collide_mask) /\ rec.collide_mask = args.collide_mask
          /\ ~HasRuntimePrefix(args.collide_mask) => (err = "ValidationError" /\ rec = NoRec)
    /\ op = "ObstaclesSchema" =>
          /\ rec # NoRec => HasRuntimePrefix(rec.mask_path) /\ rec.mask_path = args.mask_path
          /\ ~HasRuntimePrefix(args.mask_path) => (err = "ValidationError" /\ rec = NoRec)
    /\ op = "SequenceTrack" =>
          /\ rec # NoRec =>
                /\ rec.apply = args.apply
                /\ \A key \in DOMAIN rec.apply : HasRuntimePrefix(rec.apply[key])
          /\ (\E key \in DOMAIN args.apply : ~HasRuntimePrefix(args.apply[key]))
                => (err = "ValidationError" /\ rec = NoRec)
    /\ (op = "PresetAgent.generate" /\ rec # NoRec) =>
          HasRuntimePrefix(rec.obstacle.collide_mask)

\* C9 witness: a track whose apply has one good and one bad path was rejected
C9_Witness ==
    /\ op = "SequenceTrack"
    /\ DOMAIN args.apply = Slots
    /\ args.apply["preset"] = "res://runtime/obstacles_mask.png"
    /\ args.apply["forcefield"] = "res://assets/a.png"
    /\ IsNum(args.t)
    /\ err = "ValidationError"

Has(d, key) == key \in DOMAIN d

\* the optional keys of a serialized force event against the values it came from
ForceEventKeys(d, src) ==
    /\ Has(d, "dir_deg") <=> ~IsNone(src.dir_deg)
    /\ Has(d, "speed") <=> ~IsNone(src.speed)
    /\ Has(d, "dur") <=> ~IsNone(src.dur)
    /\ Has(d, "center") <=> src.center.some
    /\ Has(d, "radius") <=> ~IsNone(src.radius)
    /\ Has(d, "vortex") <=> ~IsNone(src.vortex)
ClearRuleKeys(d, src) ==
    /\ Has(d, "at") <=> src.at.some
    /\ Has(d, "gte") <=> ~IsNone(src.gte)
    /\ Has(d, "radius_px") <=> ~IsNone(src.radius_px)
DrawOpKeys(d, src) ==
    /\ Has(d, "pos") <=> src.pos.some
    /\ Has(d, "radius") <=> ~IsNone(src.radius)
    /\ Has(d, "rect") <=> src.rect.some

\* C10: in the mapping of to_dict an optional key is present exactly when its
\* source value is not None; a value that is 0, empty or otherwise falsy is
\* emitted, and emitted as it is stored.
C10_OptionalKeys ==
    doc # NoDoc =>
        /\ op = "EmitterSettings" =>
              /\ Has(doc, "burst") <=> args.burst # NoneObj
              /\ Has(doc, "random_seed") <=> ~IsNone(args.random_seed)
              /\ Has(doc, "random_seed") => doc.random_seed = rec.random_seed
        /\ op = "ForceEvent" =>
              /\ ForceEventKeys(doc, args)
              /\ Has(doc, "speed") => doc.speed = rec.speed
        /\ op = "ClearRule" =>
              /\ ClearRuleKeys(doc, args)
              /\ Has(doc, "at") => doc.at = args.at.s
        /\ op = "DrawOp" => DrawOpKeys(doc, args)
        /\ op = "ExporterSchema" =>
              /\ Has(doc, "watermark") <=> args.watermark.some
              /\ Has(doc, "watermark") => doc.watermark = args.watermark.items
              /\ Has(doc, "seed") <=> ~IsNone(args.seed)
        /\ op = "PresetAgent.generate" =>
              /\ Has(doc.emitter, "burst") <=>
                    (~IsNone(args.request.burst_interval) /\ ~IsNone(args.request.burst_count))
              /\ ~Has(doc.emitter, "random_seed")
        /\ op = "ForceFieldAgent.generate" =>
              \A i \in 1..Len(doc.timeline) :
                  ForceEventKeys(doc.timeline[i], args.request.events[i])
        /\ op = "ObstaclesSchema" =>
              /\ \A i \in 1..Len(doc.clear_rules) :
                    ClearRuleKeys(doc.clear_rules[i], rec.clear_rules[i])
              /\ \A i \in 1..Len(doc.draw_ops) : DrawOpKeys(doc.draw_ops[i], rec.draw_ops[i])

\* C10 witness: an emitter with a burst of interval 0 and count 0 and with
\* seed 0 was serialized with both keys
C10_Witness ==
    /\ op = "EmitterSettings" /\ doc # NoDoc
    /\ args.burst = BurstSettings(W(0), W(0))
    /\ args.random_seed = SeedMin
    /\ Has(doc, "burst") /\ Has(doc, "random_seed")
    /\ doc.random_seed = SeedMin

AgentOps ==
    {"PresetAgent.generate", "ForceFieldAgent.generate", "ObstacleAgent.generate",
     "SequenceAgent.generate", "TimekeeperAgent.generate", "UIHintsAgent.generate",
     "ExporterAgent.generate", "AssetPackAgent.generate"}

\* C11: the document that to_dict gives of the record of any of the eight
\* agents carries version "1.0"; the preset document of the built-in default
\* configuration has version "1.0" and an emitter rate inside [1, 100000].
C11_VersionOnEveryDocument ==
    /\ (op \in AgentOps /\ doc # NoDoc) => (Has(doc, "version") /\ doc.version = "1.0")
    /\ (op = "PresetAgent.generate" /\ args.request = DefaultPresetRequest
            /\ args.constraints = DefaultConstraints) =>
          /\ rec # NoRec
          /\ doc # NoDoc =>
                /\ doc.version = "1.0"
                /\ In(doc.emitter.rate_per_sec, W(1), W(100000))

\* C11 witness: the preset of the default configuration was serialized, with
\* version "1.0" and a rate of 2000
C11_Witness ==
    /\ op = "PresetAgent.generate" /\ args.request = DefaultPresetRequest
    /\ doc # NoDoc /\ doc.version = "1.0" /\ doc.emitter.rate_per_sec = W(2000)
    /\ doc.name = "sample_petals_gently_swaying"

PaletteOK(colors) == colors # <<>> /\ \A i \in 1..Len(colors) : colors[i] # ""
SizeRangeOK(r) == AtLeast(r.min, W(0)) /\ AtLeast(r.max, r.min)

\* every invariant of the schema layer holds of the record r and of the
\* records nested in it
RecordValid(r) ==
    /\ DomainOK(r)
    /\ r.cls = "PresetSchema" =>
          /\ PaletteOK(r.appearance.palette) /\ r.appearance.sprite # ""
          /\ SizeRangeOK(r.appearance.size_px)
          /\ HasRuntimePrefix(r.obstacle.collide_mask)
          /\ PaletteOK(r.fx.background.gradient)
    /\ r.cls = "ObstaclesSchema" => HasRuntimePrefix(r.mask_path)
    /\ r.cls = "SequenceSchema" =>
          \A i \in 1..Len(r.tracks) :
              /\ SequenceTrackOK(r.tracks[i])
              /\ \A key \in DOMAIN r.tracks[i].apply : HasRuntimePrefix(r.tracks[i].apply[key])

\* the event spec cannot become a ForceEvent: its center is not a pair, or
\* its speed or vortex is NaN
EventInvalid(e) ==
    \/ e.center.some /\ Len(e.center.items) # 2
    \/ IsNaN(e.speed) \/ IsNaN(e.vortex)

\* C12: generate of every agent either returns a record all of whose nested
\* records satisfy the schema invariants, or raises ValidationError and returns
\* no record; one invalid event anywhere in a forcefield request fails the
\* whole generate, and a returned timeline has one event per requested event.
C12_AllOrNothing ==
    /\ op \in AgentOps =>
          \/ rec # NoRec /\ err = "none" /\ RecordValid(rec)
          \/ rec = NoRec /\ err = "ValidationError"
    /\ op = "ForceFieldAgent.generate" =>
          /\ (\E i \in 1..Len(args.request.events) : EventInvalid(args.request.events[i]))
                => (rec = NoRec /\ err = "ValidationError")
          /\ rec # NoRec => Len(rec.timeline) = Len(args.request.events)

\* C12 witness: a valid event followed by one whose center is not a pair made
\* the whole generate fail
C12_Witness ==
    /\ op = "ForceFieldAgent.generate"
    /\ Len(args.request.events) = 2
    /\ ~EventInvalid(args.request.events[1])
    /\ args.request.events[2].center = List(<<Num(50)>>)
    /\ rec = NoRec /\ err = "ValidationError"

\* C13: the notes of every PresetSchema record have at most 80 characters,
\* whether the record comes from PresetAgent.generate or from the constructor
\* called directly with a longer notes string.
C13_NotesAtMost80 ==
    (rec # NoRec /\ rec.cls = "PresetSchema") => Len(rec.notes) <= 80

UpperOf(c) ==
    IF c \in Chars(LowerCase)
    THEN LET i == CHOOSE j \in 1..Len(LowerCase) : SubSeq(LowerCase, j, j) = c
         IN  SubSeq(UpperCase, i, i)
    ELSE c
\* word (given in lower case) occurs in text, the case of the letters of text
\* being ignored
HasWord(text, word) ==
    \E i \in 1..(Len(text) - Len(word) + 1) :
        \A k \in 1..Len(word) :
            SubSeq(text, i + k - 1, i + k - 1)
                \in {SubSeq(word, k, k), UpperOf(SubSeq(word, k, k))}

\* C14: a prompt containing "storm" or "strong" (in any case) gets the
\* high-energy profile (gravity 320), also when it contains "calm" or "gentle";
\* otherwise a prompt containing "calm" or "gentle" gets the low-energy profile
\* (gravity 120); every other prompt gets the default profile (gravity 240).
C14_MotionByKeyword ==
    (op = "PresetAgent.generate" /\ rec # NoRec) =>
        LET prompt == args.request.prompt
            intense == HasWord(prompt, "storm") \/ HasWord(prompt, "strong")
            quiet == HasWord(prompt, "calm") \/ HasWord(prompt, "gentle")
        IN  /\ intense => rec.motion = MotionSettings(Num(5), W(50), Num(90), W(120), W(320), Num(40))
            /\ (~intense /\ quiet) =>
                  rec.motion = MotionSettings(Num(18), W(18), Num(40), W(40), W(120), Num(20))
            /\ (~intense /\ ~quiet) =>
                  rec.motion = MotionSettings(Num(12), W(30), Num(60), W(90), W(240), Num(30))
            /\ rec.motion.gravity = IF intense THEN W(320) ELSE IF quiet THEN W(120) ELSE W(240)

\* C14 witness: a prompt with both "calm" and "STRONG" got gravity 320
C14_Witness ==
    /\ op = "PresetAgent.generate" /\ rec # NoRec
    /\ args.request.prompt = "A calm, STRONG breeze"
    /\ rec.motion.gravity = W(320)

IsLetterOrDigit(c) == c \in Chars(LowerCase) \cup Chars(UpperCase) \cup Chars(Digits)

RECURSIVE LettersDigits(_, _, _)
\* the letters and digits among the characters lo..hi of text, in order, the
\* letters in lower case
LettersDigits(text, lo, hi) ==
    IF lo > hi THEN ""
    ELSE IF lo = hi
         THEN LET c == SubSeq(text, lo, lo)
              IN  IF ~IsLetterOrDigit(c) THEN ""
                  ELSE IF c \in Chars(UpperCase)
                       THEN SubSeq(LowerCase,
                                   CHOOSE j \in 1..26 : SubSeq(UpperCase, j, j) = c,
                                   CHOOSE j \in 1..26 : SubSeq(UpperCase, j, j) = c)
                       ELSE c
    ELSE LET mid == (lo + hi) \div 2
         IN  LettersDigits(text, lo, mid) \o LettersDigits(text, mid + 1, hi)

\* name is not empty, is made of lowercase letters, digits and "_", and has no
\* "_" at either end and no two "_" in a row
IsSlug(name) ==
    /\ name # ""
    /\ \A i \in 1..Len(name) :
          SubSeq(name, i, i) \in Chars(LowerCase) \cup Chars(Digits) \cup {"_"}
    /\ SubSeq(name, 1, 1) # "_" /\ SubSeq(name, Len(name), Len(name)) # "_"
    /\ \A i \in 1..(Len(name) - 1) : SubSeq(name, i, i + 1) # "__"

\* C15: the name of a generated preset is a non-empty slug of lowercase
\* letters, digits and "_", without leading, trailing or doubled "_"; it is
\* made of the letters and digits of base_name when base_name is not empty and
\* of the prompt otherwise, and is "preset" when that text has no letter or digit.
C15_NameIsSlug ==
    (op = "PresetAgent.generate" /\ rec # NoRec) =>
        LET text == IF args.request.base_name # "" THEN args.request.base_name
                    ELSE args.request.prompt
            kept == LettersDigits(text, 1, Len(text))
        IN  /\ IsSlug(rec.name)
            /\ kept = "" => rec.name = "preset"
            /\ kept # "" => LettersDigits(rec.name, 1, Len(rec.name)) = kept

\* C15 witness: the base name "  My--Preset_2!  " gave the name "my_preset_2"
C15_Witness ==
    /\ op = "PresetAgent.generate" /\ rec # NoRec
    /\ args.request.base_name = "  My--Preset_2!  "
    /\ rec.name = "my_preset_2"

\* C16: a SizeRange built from non-NaN inputs has 0 <= min <= max: min is the
\* input raised to at least 0, and max is the input raised to at least that
\* min (an input max above it is kept).
C16_SizeRangeOrdered ==
    (op = "SizeRange" /\ IsNum(args.min) /\ IsNum(args.max)) =>
        /\ rec # NoRec
        /\ SizeRangeOK(rec)
        /\ rec.min = IF args.min.v < 0 THEN W(0) ELSE args.min
        /\ rec.max = IF args.max.v < rec.min.v THEN rec.min ELSE args.max

\* C16 witness: min 7 and max 6.99 gave min 7 and max 7
C16_Witness ==
    /\ op = "SizeRange" /\ args.min = W(7) /\ args.max = Num(699)
    /\ rec # NoRec /\ rec.min = W(7) /\ rec.max = W(7)

\* a list of the right length was stored with every component in [0, 1]
ArityKept(given, stored, arity) ==
    given.some =>
        /\ stored.some /\ Len(stored.items) = arity /\ Len(given.items) = arity
        /\ \A i \in 1..arity :
              /\ In(stored.items[i], W(0), W(1))
              /\ In(given.items[i], W(0), W(1)) => stored.items[i] = given.items[i]
WrongArity(given, arity) == given.some /\ Len(given.items) # arity

\* C17: a ForceEvent whose center is given with a length other than 2, and a
\* DrawOp whose pos is given with a length other than 2 or whose rect is given
\* with a length other than 4, fail with ValidationError; with the right length
\* every component is clamped to [0, 1] and the length is kept.
C17_TupleArity ==
    /\ op = "ForceEvent" =>
          /\ WrongArity(args.center, 2) => (rec = NoRec /\ err = "ValidationError")
          /\ rec # NoRec => ArityKept(args.center, rec.center, 2)
    /\ op = "DrawOp" =>
          /\ (WrongArity(args.pos, 2) \/ WrongArity(args.rect, 4))
                => (rec = NoRec /\ err = "ValidationError")
          /\ rec # NoRec =>
                ArityKept(args.pos, rec.pos, 2) /\ ArityKept(args.rect, rec.rect, 4)

\* C17 witness: a rect of five components, none of them NaN, was rejected
C17_Witness ==
    /\ op = "DrawOp" /\ args.rect.some /\ Len(args.rect.items) = 5
    /\ ~args.pos.some /\ err = "ValidationError" /\ rec = NoRec
    /\ \A i \in 1..5 : IsNum(args.rect.items[i])

\* C18: a record returned by an agent shares nothing with the request: after
\* generate has returned, whatever is changed through the request, the record
\* is what it was when it was returned and to_dict gives what it would have
\* given then.
C18_RecordOwnsItsValues ==
    frame.record # NoRec =>
        /\ Deep(heap, frame.record) = frame.returned
        /\ frame.doc # NoDoc => frame.doc = to_dict(frame.returned)

\* the records of UIHintsAgent, whose generate copies lists of strings, do
\* keep what they were returned with
UIHintsRecordOwnsItsValues ==
    (frame.agent = "UIHintsAgent" /\ frame.record # NoRec) =>
        /\ Deep(heap, frame.record) = frame.returned
        /\ frame.doc # NoDoc => frame.doc = to_dict(frame.returned)

\* the record that the call of a thread returns when it runs alone
Alone(call) ==
    IF AgentPool[call.agent].cls = "PresetAgent"
    THEN PresetAgent_generate(AgentPool[call.agent].constraints,
                              RequestPool[call.request].value)
    ELSE ForceFieldAgent_generate(AgentPool[call.agent].constraints.max_speed,
                                  RequestPool[call.request].value)

Done(t) == calls[t].pc = "done"

\* C19: generate never modifies the agent's constraints or the request it is
\* given; whatever the interleaving of the calls, on the same or on different
\* agents, each call returns the record (or raises the exception) that it
\* returns when it runs alone; and two calls with equal requests and equal
\* constraints return equal records.
C19_CallsAreIndependent ==
    /\ agents = AgentPool
    /\ requests = RequestPool
    /\ \A t \in Threads : Done(t) => calls[t].result = Alone(calls[t])
    /\ \A t, u \in Threads :
          (/\ Done(t) /\ Done(u)
           /\ agents[calls[t].agent] = agents[calls[u].agent]
           /\ requests[calls[t].request] = requests[calls[u].request])
              => calls[t].result = calls[u].result

\* two calls on the same agent with different requests, and two calls with
\* equal requests on different agents with equal constraints, all returned
C19_Witness ==
    /\ Done(1) /\ Done(2)
    /\ ~IsRaise(calls[1].result) /\ ~IsRaise(calls[2].result)
    /\ \/ /\ calls[1].agent = calls[2].agent
          /\ calls[1].result # calls[2].result
       \/ /\ calls[1].agent # calls[2].agent
          /\ calls[1].request # calls[2].request
          /\ calls[1].result = calls[2].result

\* the section of a config is absent, null or empty
NoSection(config, key) ==
    key \notin DOMAIN config \/ config[key] = JsonNull \/ DOMAIN config[key] = {}

\* the builder of the section raises
Fails(config, key) == ~NoSection(config, key) /\ IsRaise(builder(key, config[key]))

\* the position in BUILDERS of the first section whose builder raises, or one
\* past the end
FirstFailure(config) ==
    LET failing == {i \in 1..Len(BUILDERS) : Fails(config, BUILDERS[i])}
    IN  IF failing = {} THEN Len(BUILDERS) + 1
        ELSE CHOOSE i \in failing : \A j \in failing : i <= j

\* the keys of the sections that are there, among the first n of the fixed order
Present(config, n) ==
    SelectSeq(SubSeq(<<"preset", "forcefield", "obstacles", "sequence", "timefx", "uihints",
                       "exporter", "assets">>, 1, n),
              LAMBDA key : ~NoSection(config, key))

FileNames ==
    [preset |-> "preset.json", forcefield |-> "forcefield.json",
     obstacles |-> "obstacles.json", sequence |-> "sequence.json", timefx |-> "timefx.json",
     uihints |-> "uihints.json", exporter |-> "capture.json", assets |-> "assets.json"]

\* C20: generate_files goes through preset, forcefield, obstacles, sequence,
\* timefx, uihints, exporter, assets in this order and writes one file for each
\* section that is present, non-empty and whose builder succeeded; an absent,
\* null or empty section writes no file and is not in the returned mapping.
\* When a builder raises, the error propagates, no file is written for that
\* section or a later one, and the files written before remain.
C20_FilesInOrderUntilFailure ==
    run.pos > 0 =>
        LET first == FirstFailure(run.config)
            keys == Present(run.config, run.pos - 1)
        IN  /\ run.pos <= first
            /\ Len(run.files) = Len(keys) /\ Len(run.outputs) = Len(keys)
            /\ \A i \in 1..Len(keys) :
                  /\ run.files[i].name = FileNames[keys[i]]
                  /\ run.files[i].data = builder(keys[i], run.config[keys[i]]).data
                  /\ run.files[i].data["version"] = "1.0"
                  /\ run.outputs[i] = [key |-> keys[i], name |-> FileNames[keys[i]]]
            /\ run.state = "raised" =>
                  /\ run.pos = first /\ first <= Len(BUILDERS)
                  /\ run.err = builder(BUILDERS[first], run.config[BUILDERS[first]]).kind
            /\ run.state = "returned" => run.pos = Len(BUILDERS) + 1

\* a run stopped by a ValidationError after it wrote a file, with a section
\* after the failing one that would have been written
C20_Witness ==
    /\ run.pos > 0
    /\ run.state = "raised" /\ run.err = "ValidationError"
    /\ Len(run.files) >= 1
    /\ \E i \in (run.pos + 1)..Len(BUILDERS) : ~NoSection(run.config, BUILDERS[i])
    /\ \E i \in 1..(run.pos - 1) : NoSection(run.config, BUILDERS[i])

====
